---- MODULE Spec2Model ----
(***************************************************************************)
(* Model of the WiMO retrieval service: the search route handlers, their   *)
(* helpers (normalize, lexical scorers, review text parsers, source        *)
(* classifiers), the calls they make to the embedding provider and the     *)
(* database, and the log route.                                            *)
(*                                                                         *)
(* Spec runs the handlers; ParseSpec runs the three parseReviewText        *)
(* functions and ClassifySpec the three source classifiers on their own.   *)
(*                                                                         *)
(* Text is a sequence of one-character strings, so that toLowerCase,       *)
(* replace, trim, split and includes are computed character by character.  *)
(* A JavaScript value that may be null or undefined is a record            *)
(* [isNull, chars].  Similarities are hundredths (0.55 is 55).             *)
(***************************************************************************)
EXTENDS Integers, Sequences, FiniteSets, TLC

----------------------------------------------------------------------------
(* Characters *)

Upper == <<"A","B","C","D","E","F","G","H","I","J","K","L","M","N","O","P","Q","R","S","T","U","V","W","X","Y","Z">>

LowerLetters == <<"a","b","c","d","e","f","g","h","i","j","k","l","m","n","o","p","q","r","s","t","u","v","w","x","y","z">>

Digits == <<"0","1","2","3","4","5","6","7","8","9">>

Range(f) == { f[i] : i \in DOMAIN f }

\* String.prototype.toLowerCase on one character
LowerChar(c) ==
  IF \E i \in 1..26 : Upper[i] = c
    THEN LowerLetters[CHOOSE i \in 1..26 : Upper[i] = c]
    ELSE c

IsDigit(c) == c \in Range(Digits)

IsLetter(c) == c \in Range(Upper) \cup Range(LowerLetters)

\* the class [a-z0-9]
IsLowerAlnum(c) == c \in Range(LowerLetters) \cup Range(Digits)

\* the class \w
IsWordChar(c) == IsLetter(c) \/ IsDigit(c) \/ c = "_"

\* the class \s
IsSpace(c) == c \in {" ", "\n", "\t", "\r"}

----------------------------------------------------------------------------
(* String primitives *)

ToLower(s) == [i \in 1..Len(s) |-> LowerChar(s[i])]

\* first index >= i of s that holds no whitespace (Len(s)+1 when none): a greedy \s*
SkipSpaces(s, i) ==
  IF \E k \in i..Len(s) : ~IsSpace(s[k])
    THEN CHOOSE k \in i..Len(s) : ~IsSpace(s[k]) /\ \A j \in i..(k-1) : IsSpace(s[j])
    ELSE Len(s) + 1

\* String.prototype.trim
Trim(s) ==
  IF \A k \in 1..Len(s) : IsSpace(s[k])
    THEN <<>>
    ELSE LET a == SkipSpaces(s, 1)
             b == CHOOSE k \in 1..Len(s) :
                    ~IsSpace(s[k]) /\ \A j \in (k+1)..Len(s) : IsSpace(s[j])
         IN SubSeq(s, a, b)

\* p occurs in s starting at index i
MatchesAt(s, i, p) ==
  /\ i >= 1
  /\ i + Len(p) - 1 <= Len(s)
  /\ \A k \in 1..Len(p) : s[i + k - 1] = p[k]

\* the same, ignoring case (the i flag); p is given in lower case
MatchesAtI(s, i, p) ==
  /\ i >= 1
  /\ i + Len(p) - 1 <= Len(s)
  /\ \A k \in 1..Len(p) : LowerChar(s[i + k - 1]) = p[k]

\* String.prototype.includes
Includes(s, p) == \E i \in 1..(Len(s) + 1) : MatchesAt(s, i, p)

\* String.prototype.startsWith
StartsWith(s, p) == MatchesAt(s, 1, p)

\* s.replace(/\s+/g, " "): every run of whitespace becomes one space
RECURSIVE CollapseSpaces(_)
CollapseSpaces(s) ==
  IF s = <<>> THEN <<>>
  ELSE IF IsSpace(Head(s))
    THEN <<" ">> \o CollapseSpaces(SubSeq(s, SkipSpaces(s, 1), Len(s)))
    ELSE <<Head(s)>> \o CollapseSpaces(Tail(s))

\* s.split(sep) for a one-character separator
RECURSIVE Split(_, _)
Split(s, sep) ==
  IF \E k \in 1..Len(s) : s[k] = sep
    THEN LET k == CHOOSE k \in 1..Len(s) : s[k] = sep /\ \A j \in 1..(k-1) : s[j] # sep
         IN <<SubSeq(s, 1, k - 1)>> \o Split(SubSeq(s, k + 1, Len(s)), sep)
    ELSE <<s>>

\* .filter(Boolean) on an array of strings: the empty string is falsy
NonEmpty(t) == t # <<>>

\* a value that may be null or undefined
Null == [isNull |-> TRUE, chars |-> <<>>]

Str(s) == [isNull |-> FALSE, chars |-> s]

\* JavaScript truthiness of a string-or-null value
Truthy(v) == ~v.isNull /\ v.chars # <<>>

\* a || b on string-or-null values
OrElse(a, b) == IF Truthy(a) THEN a ELSE b

----------------------------------------------------------------------------
(* normalize and the lexical scorers *)

ORDER_KEYWORDS ==
  << <<"o","r","d","e","r">>,
     <<"d","e","l","i","v","e","r","y">>,
     <<"w","h","e","n"," ","w","i","l","l"," ","i"," ","g","e","t">>,
     <<"w","h","e","r","e"," ","i","s"," ","m","y"," ","o","r","d","e","r">>,
     <<"t","r","a","c","k"," ","m","y"," ","o","r","d","e","r">>,
     <<"s","t","a","t","u","s">>,
     <<"p","i","c","k","u","p">>,
     <<"c","o","u","r","i","e","r">>,
     <<"d","e","l","a","y","e","d">> >>

\* s.replace(/[^a-z0-9\s]/g, " ")
ReplaceNonAlnum(s) ==
  [i \in 1..Len(s) |-> IF IsLowerAlnum(s[i]) \/ IsSpace(s[i]) THEN s[i] ELSE " "]

normalize(s) == Trim(CollapseSpaces(ReplaceNonAlnum(ToLower(s))))

\* normalize(query).split(" ").filter(Boolean)
QueryWords(query) == SelectSeq(Split(normalize(query), " "), NonEmpty)

\* a hit count that counts a repeated query word once
CountDistinctHits(words, t) ==
  Cardinality({ w \in { words[i] : i \in 1..Len(words) } : Includes(t, w) })

\* the hit count of scoreReview and textMatchScore: one per query word found in the text
CountHits(words, t) == Cardinality({ i \in 1..Len(words) : Includes(t, words[i]) })

scoreReview(reviewText, query) == CountHits(QueryWords(query), normalize(reviewText))

\* text || "" guards a null text
textMatchScore(text, query) ==
  CountHits(QueryWords(query), normalize(OrElse(text, Str(<<>>)).chars))

\* ORDER_KEYWORDS.some((kw) => normQ.includes(kw))
looksLikeOrder(query) ==
  \E k \in 1..Len(ORDER_KEYWORDS) : Includes(normalize(query), ORDER_KEYWORDS[k])

\* ORDER_KEYWORDS.reduce((acc, kw) => acc + (normalize(content).includes(kw) ? 1 : 0), 0)
orderScore(content) ==
  Cardinality({ k \in 1..Len(ORDER_KEYWORDS) : Includes(normalize(content), ORDER_KEYWORDS[k]) })

----------------------------------------------------------------------------
(* Regular-expression primitives *)

Min(S) == CHOOSE x \in S : \A y \in S : x <= y

\* the character at index i, or "" past either end
CharAt(s, i) == IF i \in 1..Len(s) THEN s[i] ELSE ""

IsQuote(c) == c \in {"'", "\""}

\* the class [^'"]
NotQuote(c) == ~IsQuote(c)

\* the class [^'"\n]
NotQuoteNewline(c) == ~IsQuote(c) /\ c # "\n"

\* the class [^'"\n}]
NotQuoteNewlineBrace(c) == ~IsQuote(c) /\ c # "\n" /\ c # "}"

\* the class [^\n]
NotNewline(c) == c # "\n"

\* the class of the hyphen, the en dash (written "ndash") and the bullet (written "bullet")
IsBullet(c) == c \in {"-", "ndash", "bullet"}

\* the class [0-5]
IsDigit0to5(c) == c \in {"0", "1", "2", "3", "4", "5"}

\* index of the last character of the longest run s[k..e] of characters in class P
\* (k - 1 when the run is empty): a greedy P*
RunEnd(s, k, P(_)) ==
  IF \E p \in k..Len(s) : ~P(s[p])
    THEN Min({ p \in k..Len(s) : ~P(s[p]) }) - 1
    ELSE IF k <= Len(s) THEN Len(s) ELSE k - 1

\* end of (?:\.\d+)? tried after index e
FracEnd(s, e) ==
  IF CharAt(s, e + 1) = "." /\ IsDigit(CharAt(s, e + 2))
    THEN RunEnd(s, e + 2, IsDigit)
    ELSE e

NoMatch == [ok |-> FALSE, g |-> <<>>]

\* a match with capture group 1 equal to g
Match(g) == [ok |-> TRUE, g |-> g]

\* RegExp.prototype.exec: the match at the leftmost start index, At(s, i) being
\* the match the expression finds when started at index i
Exec(s, At(_, _)) ==
  LET starts == { i \in 1..(Len(s) + 1) : At(s, i).ok }
  IN IF starts = {} THEN NoMatch ELSE At(s, Min(starts))

----------------------------------------------------------------------------
(* Number(...) on decimal text; numbers are kept in hundredths *)

NaN == [isNaN |-> TRUE, num |-> 0]

Num(n) == [isNaN |-> FALSE, num |-> n]

DigitVal(c) == (CHOOSE i \in 1..10 : Digits[i] = c) - 1

RECURSIVE IntVal(_)
IntVal(ds) ==
  IF ds = <<>> THEN 0 ELSE 10 * IntVal(SubSeq(ds, 1, Len(ds) - 1)) + DigitVal(ds[Len(ds)])

\* t has the shape \d+(\.\d+)?
IsDecimal(t) ==
  LET e == RunEnd(t, 1, IsDigit)
  IN /\ e >= 1
     /\ \/ e = Len(t)
        \/ /\ CharAt(t, e + 1) = "."
           /\ e + 2 <= Len(t)
           /\ RunEnd(t, e + 2, IsDigit) = Len(t)

\* the value of decimal text t, in hundredths (digits after the second decimal are dropped)
DecimalHundredths(t) ==
  LET e == RunEnd(t, 1, IsDigit)
      d1 == IF IsDigit(CharAt(t, e + 2)) THEN DigitVal(t[e + 2]) ELSE 0
      d2 == IF IsDigit(CharAt(t, e + 3)) THEN DigitVal(t[e + 3]) ELSE 0
  IN 100 * IntVal(SubSeq(t, 1, e)) + 10 * d1 + d2

\* Number(t) for "", decimal text and text that is no number
NumberOf(t) ==
  IF t = <<>> THEN Num(0)
  ELSE IF IsDecimal(t) THEN Num(DecimalHundredths(t))
  ELSE NaN

NullNum == [isNull |-> TRUE, num |-> 0]

JustNum(n) == [isNull |-> FALSE, num |-> n]

----------------------------------------------------------------------------
(* Labels of the review text format, in lower case *)

L_displayname == <<"d","i","s","p","l","a","y","n","a","m","e">>

L_reviewer == <<"r","e","v","i","e","w","e","r">>

L_rating == <<"r","a","t","i","n","g">>

L_date == <<"d","a","t","e">>

L_source == <<"s","o","u","r","c","e">>

L_review == <<"r","e","v","i","e","w">>

L_comment == <<"c","o","m","m","e","n","t">>

L_star == <<"s","t","a","r">>

\* a parse result: reviewer, date and review are string-or-null, rating number-or-null
Parsed(reviewer, rating, date, review) ==
  [reviewer |-> reviewer, rating |-> rating, date |-> date, review |-> review]

----------------------------------------------------------------------------
(* parseReviewText of src/app/api/search/route.ts: line by line *)

\* raw.split(/\r?\n/).map((l) => l.trim()).filter(Boolean)
TrimmedLines(raw) ==
  LET parts == Split(raw, "\n")
  IN SelectSeq([i \in 1..Len(parts) |-> Trim(parts[i])], NonEmpty)

\* line.toLowerCase().startsWith(label + ":")
LineHasLabel(line, label) == StartsWith(ToLower(line), label \o <<":">>)

\* line.split(":").slice(1).join(":").trim(): the text after the first colon
AfterFirstColon(line) ==
  LET k == Min({ i \in 1..Len(line) : line[i] = ":" })
  IN Trim(SubSeq(line, k + 1, Len(line)))

\* line.replace(/label:/i, "").trim() on a line that starts with the label
AfterLabel(line, label) == Trim(SubSeq(line, Len(label) + 2, Len(line)))

\* which branch of the if / else-if chain of the loop a line takes
LineKind(line) ==
  IF LineHasLabel(line, L_reviewer) THEN "reviewer"
  ELSE IF LineHasLabel(line, L_rating) THEN "rating"
  ELSE IF LineHasLabel(line, L_date) THEN "date"
  ELSE IF LineHasLabel(line, L_source) THEN "source"
  ELSE "other"

\* the last line of a kind (each assignment of the loop overwrites the one before), 0 when none
LastLineOf(lines, kind, Keep(_)) ==
  LET idx == { i \in 1..Len(lines) : LineKind(lines[i]) = kind /\ Keep(lines[i]) }
  IN IF idx = {} THEN 0 ELSE CHOOSE i \in idx : \A j \in idx : j <= i

AnyLine(line) == TRUE

\* if (!Number.isNaN(num)) out.rating = num
RatingLineIsNumber(line) == ~NumberOf(AfterLabel(line, L_rating)).isNaN

IsReviewLine(line) == LineHasLabel(line, L_review) \/ LineHasLabel(line, L_comment)

parseReviewText(raw) ==
  IF raw = <<>> THEN Parsed(Null, NullNum, Null, Null)
  ELSE
    LET lines == TrimmedLines(raw)
        iName == LastLineOf(lines, "reviewer", AnyLine)
        iRating == LastLineOf(lines, "rating", RatingLineIsNumber)
        iDate == LastLineOf(lines, "date", AnyLine)
        reviewLines == SelectSeq(lines, IsReviewLine)
    IN Parsed(
         IF iName = 0 THEN Null ELSE Str(AfterFirstColon(lines[iName])),
         IF iRating = 0 THEN NullNum
           ELSE JustNum(NumberOf(AfterLabel(lines[iRating], L_rating)).num),
         IF iDate = 0 THEN Null ELSE Str(AfterLabel(lines[iDate], L_date)),
         IF reviewLines # <<>> THEN Str(AfterFirstColon(reviewLines[1]))
           ELSE Str(Trim(raw)))

----------------------------------------------------------------------------
(* The regular expressions of the two regex parsers (part_004, part_002).  *)
(* XAt(s, i) is the match of expression X started at index i of s.         *)

\* /displayName['"]?\s*[:=]\s*['"]([^'"]+)['"]/i
displayNameAt(s, i) ==
  LET j1 == i + Len(L_displayname)
      j2 == IF IsQuote(CharAt(s, j1)) THEN j1 + 1 ELSE j1
      j3 == SkipSpaces(s, j2)
      j4 == SkipSpaces(s, j3 + 1)
      e == RunEnd(s, j4 + 1, NotQuote)
  IN IF /\ MatchesAtI(s, i, L_displayname)
        /\ CharAt(s, j3) \in {":", "="}
        /\ IsQuote(CharAt(s, j4))
        /\ e >= j4 + 1
        /\ IsQuote(CharAt(s, e + 1))
       THEN Match(SubSeq(s, j4 + 1, e))
       ELSE NoMatch

\* /reviewer\s*:\s*['"]?([A-Za-z][^'"\n]+?)['"]?(?:\n|$)/i
\* the lazy group can only end where the run of [^'"\n] ends, and what follows
\* must be an optional quote and then a newline or the end of the text
reviewerLineAt(s, i) ==
  LET j == SkipSpaces(s, i + Len(L_reviewer))
      k == SkipSpaces(s, j + 1)
      g == IF IsQuote(CharAt(s, k)) THEN k + 1 ELSE k
      e == RunEnd(s, g + 1, NotQuoteNewline)
      t == IF IsQuote(CharAt(s, e + 1)) THEN e + 2 ELSE e + 1
  IN IF /\ MatchesAtI(s, i, L_reviewer)
        /\ CharAt(s, j) = ":"
        /\ IsLetter(CharAt(s, g))
        /\ e >= g + 1
        /\ (t > Len(s) \/ CharAt(s, t) = "\n")
       THEN Match(SubSeq(s, g, e))
       ELSE NoMatch

\* /reviewer\s*[:=]\s*['"]?([A-Za-z][^'"\n}]+)['"]?/i
reviewerLooseAt(s, i) ==
  LET j == SkipSpaces(s, i + Len(L_reviewer))
      k == SkipSpaces(s, j + 1)
      g == IF IsQuote(CharAt(s, k)) THEN k + 1 ELSE k
      e == RunEnd(s, g + 1, NotQuoteNewlineBrace)
  IN IF /\ MatchesAtI(s, i, L_reviewer)
        /\ CharAt(s, j) \in {":", "="}
        /\ IsLetter(CharAt(s, g))
        /\ e >= g + 1
       THEN Match(SubSeq(s, g, e))
       ELSE NoMatch

\* /rating\s*[:\-]?\s*(\d+(?:\.\d+)?)/i
ratingAnyAt(s, i) ==
  LET j == SkipSpaces(s, i + Len(L_rating))
      k == SkipSpaces(s, IF CharAt(s, j) \in {":", "-"} THEN j + 1 ELSE j)
      e == RunEnd(s, k, IsDigit)
  IN IF MatchesAtI(s, i, L_rating) /\ e >= k
       THEN Match(SubSeq(s, k, FracEnd(s, e)))
       ELSE NoMatch

\* /rating\s*[:\-]?\s*([0-5](?:\.\d+)?)/i
rating0to5At(s, i) ==
  LET j == SkipSpaces(s, i + Len(L_rating))
      k == SkipSpaces(s, IF CharAt(s, j) \in {":", "-"} THEN j + 1 ELSE j)
  IN IF MatchesAtI(s, i, L_rating) /\ IsDigit0to5(CharAt(s, k))
       THEN Match(SubSeq(s, k, FracEnd(s, k)))
       ELSE NoMatch

\* /([0-5](?:\.\d+)?)\s*\/\s*5/
outOfFiveAt(s, i) ==
  LET e == FracEnd(s, i)
      j == SkipSpaces(s, e + 1)
      k == SkipSpaces(s, j + 1)
  IN IF IsDigit0to5(CharAt(s, i)) /\ CharAt(s, j) = "/" /\ CharAt(s, k) = "5"
       THEN Match(SubSeq(s, i, e))
       ELSE NoMatch

\* /([0-5](?:\.\d+)?)\s*stars?/i
starsAt(s, i) ==
  LET e == FracEnd(s, i)
      j == SkipSpaces(s, e + 1)
  IN IF IsDigit0to5(CharAt(s, i)) /\ MatchesAtI(s, j, L_star)
       THEN Match(SubSeq(s, i, e))
       ELSE NoMatch

\* /\b(20\d{2}-\d{2}-\d{2})\b/
isoDateAt(s, i) ==
  IF /\ i + 9 <= Len(s)
     /\ s[i] = "2" /\ s[i + 1] = "0"
     /\ IsDigit(s[i + 2]) /\ IsDigit(s[i + 3])
     /\ s[i + 4] = "-"
     /\ IsDigit(s[i + 5]) /\ IsDigit(s[i + 6])
     /\ s[i + 7] = "-"
     /\ IsDigit(s[i + 8]) /\ IsDigit(s[i + 9])
     /\ ~IsWordChar(CharAt(s, i - 1))
     /\ ~IsWordChar(CharAt(s, i + 10))
    THEN Match(SubSeq(s, i, i + 9))
    ELSE NoMatch

\* /date\s*[:\-]?\s*([^\n]+)\n?/i
\* when only whitespace follows the label, the expression backtracks: the group is
\* then trailing blanks, or the colon itself
dateLineAt(s, i) ==
  LET j == SkipSpaces(s, i + Len(L_date))
      hasSep == CharAt(s, j) \in {":", "-"}
      j2 == IF hasSep THEN j + 1 ELSE j
      k == SkipSpaces(s, j2)
      blanks(a, b) == { p \in a..b : p <= Len(s) /\ s[p] # "\n" }
  IN IF ~MatchesAtI(s, i, L_date) THEN NoMatch
     ELSE IF k <= Len(s) THEN Match(SubSeq(s, k, RunEnd(s, k, NotNewline)))
     ELSE IF blanks(j2, Len(s)) # {}
       THEN LET p == CHOOSE p \in blanks(j2, Len(s)) : \A q \in blanks(j2, Len(s)) : q <= p
            IN Match(SubSeq(s, p, RunEnd(s, p, NotNewline)))
     ELSE IF hasSep THEN Match(SubSeq(s, j, RunEnd(s, j, NotNewline)))
     ELSE IF blanks(i + Len(L_date), Len(s)) # {}
       THEN LET p == CHOOSE p \in blanks(i + Len(L_date), Len(s)) :
                       \A q \in blanks(i + Len(L_date), Len(s)) : q <= p
            IN Match(SubSeq(s, p, RunEnd(s, p, NotNewline)))
     ELSE NoMatch

\* ^ under the m flag: the start of the text or the place after a line break
LineStart(s, i) == i = 1 \/ CharAt(s, i - 1) = "\n"

\* the label (review or comment) found at index i, <<>> when neither is there
BodyLabelAt(s, i) ==
  IF MatchesAtI(s, i, L_review) THEN L_review
  ELSE IF MatchesAtI(s, i, L_comment) THEN L_comment
  ELSE <<>>

\* /^(?:review|comment)\s*:\s*([\s\S]+)$/im
\* the group runs to the end of the text; when only whitespace follows the colon the
\* greedy \s* gives its last character back to the group
reviewBodyAt(s, i) ==
  LET label == BodyLabelAt(s, i)
      j == SkipSpaces(s, i + Len(label))
      k == SkipSpaces(s, j + 1)
  IN IF /\ LineStart(s, i)
        /\ label # <<>>
        /\ CharAt(s, j) = ":"
        /\ j + 1 <= Len(s)
       THEN Match(SubSeq(s, IF k <= Len(s) THEN k ELSE Len(s), Len(s)))
       ELSE NoMatch

\* /(?:^|[\n])\s*[-<ndash><bullet>]\s*([\s\S]+)$/m
bulletBodyAt(s, i) ==
  LET b == SkipSpaces(s, i)
      k == SkipSpaces(s, b + 1)
  IN IF /\ (LineStart(s, i) \/ CharAt(s, i) = "\n")
        /\ IsBullet(CharAt(s, b))
        /\ b + 1 <= Len(s)
       THEN Match(SubSeq(s, IF k <= Len(s) THEN k ELSE Len(s), Len(s)))
       ELSE NoMatch

\* /(?:^|\n)\s*(?:review|comment)\s*[:\-]?\s*([\s\S]+)/i
\* no m flag: ^ is the start of the text only; the separator is optional, so the
\* label also matches as the beginning of a longer word
reviewBodyLooseAt(s, i) ==
  LET l == SkipSpaces(s, i)
      label == BodyLabelAt(s, l)
      j == SkipSpaces(s, l + Len(label))
      hasSep == CharAt(s, j) \in {":", "-"}
      j2 == IF hasSep THEN j + 1 ELSE j
      k == SkipSpaces(s, j2)
  IN IF ~((i = 1 \/ CharAt(s, i) = "\n") /\ label # <<>>) THEN NoMatch
     ELSE IF k <= Len(s) THEN Match(SubSeq(s, k, Len(s)))
     ELSE IF j2 <= Len(s) THEN Match(SubSeq(s, Len(s), Len(s)))
     ELSE IF hasSep THEN Match(SubSeq(s, j, Len(s)))
     ELSE IF l + Len(label) <= Len(s) THEN Match(SubSeq(s, Len(s), Len(s)))
     ELSE NoMatch

\* a.exec(txt) || b.exec(txt)
FirstOf(a, b) == IF a.ok THEN a ELSE b

\* raw.replace(/\r/g, "")
StripCR(raw) == SelectSeq(raw, LAMBDA c : c # "\r")

\* t.replace(/^\s*\{[^]*?\}\s*/s, ""): a leading {...} blob is cut off
StripLeadingBlob(t) ==
  LET a == SkipSpaces(t, 1)
      closers == { p \in (a + 1)..Len(t) : t[p] = "}" }
  IN IF CharAt(t, a) = "{" /\ closers # {}
       THEN SubSeq(t, SkipSpaces(t, Min(closers) + 1), Len(t))
       ELSE t

\* a captured group as a string-or-null value
GroupOrNull(m) == IF m.ok THEN Str(Trim(m.g)) ELSE Null

\* mRating ? Number(mRating[1]) : null
RatingOrNull(m) == IF m.ok THEN JustNum(DecimalHundredths(m.g)) ELSE NullNum

----------------------------------------------------------------------------
(* parseReviewText of part_004 *)

parseReviewText_part004(raw) ==
  IF raw = <<>> THEN Parsed(Null, NullNum, Null, Null)
  ELSE
    LET txt == StripCR(raw)
        mName == FirstOf(Exec(txt, displayNameAt), Exec(txt, reviewerLineAt))
        mRating == FirstOf(Exec(txt, ratingAnyAt), Exec(txt, outOfFiveAt))
        mDateLine == FirstOf(Exec(txt, isoDateAt), Exec(txt, dateLineAt))
        mReview == FirstOf(Exec(txt, reviewBodyAt), Exec(txt, bulletBodyAt))
    IN Parsed(GroupOrNull(mName),
              RatingOrNull(mRating),
              GroupOrNull(mDateLine),
              Str(Trim(IF mReview.ok THEN mReview.g ELSE txt)))

(* parseReviewText of part_002 (the variant with dbRowToSource) *)

parseReviewText_part002(raw) ==
  IF raw = <<>> THEN Parsed(Null, NullNum, Null, Str(<<>>))
  ELSE
    LET txt == StripCR(raw)
        mName == FirstOf(Exec(txt, displayNameAt), Exec(txt, reviewerLooseAt))
        mRating == FirstOf(Exec(txt, rating0to5At),
                           FirstOf(Exec(txt, outOfFiveAt), Exec(txt, starsAt)))
        mDate == FirstOf(Exec(txt, isoDateAt), Exec(txt, dateLineAt))
        mBody == Exec(txt, reviewBodyLooseAt)
    IN Parsed(GroupOrNull(mName),
              RatingOrNull(mRating),
              GroupOrNull(mDate),
              Str(Trim(StripLeadingBlob(IF mBody.ok THEN mBody.g ELSE txt))))

----------------------------------------------------------------------------
(* Source classification *)

\* a tag field that is absent, null or undefined
NoTag == "<undefined>"

\* JavaScript truthiness of a tag: undefined and "" are falsy
TagTruthy(t) == t # NoTag /\ t # ""

\* a JSON meta object with its three tag fields; isNull when the column is null
Meta(source, type, sourceBucket) ==
  [isNull |-> FALSE, source |-> source, type |-> type, sourceBucket |-> sourceBucket]

NullMeta == [isNull |-> TRUE, source |-> NoTag, type |-> NoTag, sourceBucket |-> NoTag]

\* meta || {}
MetaOrEmpty(m) == IF m.isNull THEN Meta(NoTag, NoTag, NoTag) ELSE m

\* a || b || ... : the first truthy tag of the chain, else its last element
FirstTruthy(chain) ==
  IF \E i \in 1..Len(chain) : TagTruthy(chain[i])
    THEN chain[Min({ i \in 1..Len(chain) : TagTruthy(chain[i]) })]
    ELSE chain[Len(chain)]

\* a closing chain that keeps every tag other than the review tag in the faq bucket
BucketOfLax(src) == IF src = "google-review" THEN "google-review" ELSE "faq"

\* the closing if-chain of rowSource and dbRowToSource
BucketOf(src) ==
  IF src = "faq" THEN "faq"
  ELSE IF src = "google-review" THEN "google-review"
  ELSE "unknown"

\* the other closing value a chain could have: a row without any tag left unclassified
DefaultSourceUnknown == "unknown"

\* the last operand of the || chains: a row without any tag counts as FAQ
DefaultSource == "faq"

\* rowSource of part_004
rowSource(row) ==
  LET m == MetaOrEmpty(row.meta)
      d == MetaOrEmpty(row.doc_meta)
  IN BucketOf(FirstTruthy(<<m.source, m.type, m.sourceBucket,
                            d.source, d.type, d.sourceBucket,
                            row.sourceBucket, DefaultSource>>))

\* dbRowToSource of part_002
dbRowToSource(row) ==
  LET m == MetaOrEmpty(row.meta)
      d == MetaOrEmpty(row.doc_meta)
  IN BucketOf(FirstTruthy(<<m.source, m.type, m.sourceBucket,
                            d.source, d.type, d.sourceBucket,
                            row.sourceBucket, DefaultSource>>))

\* the inline chain of src/app/api/search/route.ts: m.source || m.type || m.sourceBucket || "faq"
inlineSource(row) ==
  LET m == MetaOrEmpty(row.meta)
  IN FirstTruthy(<<m.source, m.type, m.sourceBucket, DefaultSource>>)

----------------------------------------------------------------------------
(* Tunables of the search routes *)

FAQ_MIN_SIM == 55

MAX_RETURN == 3

MAX_FAQ_RETURN == 3

MAX_REVIEW_RETURN == 3

----------------------------------------------------------------------------
(* Array helpers *)

\* arr.slice(0, n)
Take(arr, n) == SubSeq(arr, 1, IF Len(arr) < n THEN Len(arr) ELSE n)

\* a sort that puts the later of two elements with equal keys first
SortDescLaterFirst(arr, keys) ==
  LET before(i) == Cardinality({ j \in 1..Len(arr) :
                     keys[j] > keys[i] \/ (keys[j] = keys[i] /\ j > i) })
  IN [p \in 1..Len(arr) |-> arr[CHOOSE i \in 1..Len(arr) : before(i) = p - 1]]

\* arr.sort((a, b) => b.key - a.key) on the keys of the elements: Array.prototype.sort
\* is stable, so elements with equal keys keep their order
SortDescByKey(arr, keys) ==
  LET before(i) == Cardinality({ j \in 1..Len(arr) :
                     keys[j] > keys[i] \/ (keys[j] = keys[i] /\ j < i) })
  IN [p \in 1..Len(arr) |-> arr[CHOOSE i \in 1..Len(arr) : before(i) = p - 1]]

\* indices of the elements of arr that satisfy P, in order
RECURSIVE IndicesWhere(_, _, _)
IndicesWhere(arr, P(_), from) ==
  IF from > Len(arr) THEN <<>>
  ELSE IF P(arr[from]) THEN <<from>> \o IndicesWhere(arr, P, from + 1)
  ELSE IndicesWhere(arr, P, from + 1)

----------------------------------------------------------------------------
(* Rows returned by the database *)

Row(meta, similarity, content) ==
  [meta |-> meta, doc_meta |-> NullMeta, sourceBucket |-> NoTag,
   similarity |-> similarity, content |-> content]

C_care == <<"S","a","r","e","e"," ","c","a","r","e">>

C_orderStatus == <<"O","r","d","e","r"," ","s","t","a","t","u","s">>

C_delivery == <<"D","e","l","i","v","e","r","y">>

C_reviewFit == <<"R","e","v","i","e","w",":"," ","G","r","e","a","t"," ","f","i","t">>

C_fastDelivery == <<"F","a","s","t"," ","d","e","l","i","v","e","r","y">>

C_niceFit == <<"N","i","c","e"," ","f","i","t">>

\* the contents a stored chunk has in the model; Null is a chunk whose content column is null
ContentPool == { Str(C_care), Str(C_orderStatus), Str(C_delivery),
                 Str(C_reviewFit), Str(C_fastDelivery), Str(C_niceFit), Null }

\* rows of the nearest-neighbour query
RowPool ==
  { Row(Meta("faq", NoTag, NoTag), 80, Str(C_care)),
    Row(NullMeta, 55, Str(C_orderStatus)),
    Row(Meta("faq", NoTag, NoTag), 54, Str(C_delivery)),
    Row(Meta("faq", NoTag, NoTag), 54, Null),
    Row(Meta("faq", NoTag, NoTag), 30, Str(C_orderStatus)),
    Row(Meta("google-review", NoTag, NoTag), 60, Str(C_reviewFit)),
    Row(Meta("product", NoTag, NoTag), 70, Str(C_orderStatus)) }

\* rows of the review query of src/app/api/search/route.ts:
\* where (d.meta->>'source') = 'google-review'
ReviewRowPool ==
  { Row(Meta("google-review", NoTag, NoTag), 0, Str(C_reviewFit)),
    Row(Meta("google-review", NoTag, NoTag), 0, Null) }

Q_order == <<"w","h","e","r","e"," ","i","s"," ","m","y"," ","o","r","d","e","r">>

Q_fit == <<"G","r","e","a","t"," ","f","i","t","?">>

Q_saree == <<"s","a","r","e","e">>

\* the query field of the request body; Null is a body without the field
QueryPool == { Null, Str(<<>>), Str(<<" ", " ">>), Str(Q_order), Str(Q_fit), Str(Q_saree) }

\* the longest row list a query returns in the model
MaxRows == 4

\* the longest list the review query returns in the model: one past the cut of slice(0, 3)
MaxReviewRows == MAX_RETURN + 1

SeqsUpTo(S, n) == UNION { [1..k -> S] : k \in 0..n }

\* order by dc.embedding <=> $1::vector: the rows come most similar first
SortedBySimilarity(rows) ==
  \A i \in 1..(Len(rows) - 1) : rows[i].similarity >= rows[i + 1].similarity

\* the results the nearest-neighbour query can return
NearestRows == { rows \in SeqsUpTo(RowPool, MaxRows) : SortedBySimilarity(rows) }

\* the results the review query can return
StoredReviewRows == SeqsUpTo(ReviewRowPool, MaxReviewRows)

----------------------------------------------------------------------------
(* Tables of the helpers over the contents and queries of the model: the   *)
(* helpers are pure, so each value is computed once                        *)

\* (body?.query ?? "").toString().trim()
QueryOf(field) == Trim(IF field.isNull THEN <<>> ELSE field.chars)

Queries == { QueryOf(f) : f \in QueryPool }

LooksLikeOrderOf == [q \in Queries |-> looksLikeOrder(q)]

\* orderScore of a row's content; normalize(null) throws, see ThrowsInRescue
OrderScoreOf == [c \in ContentPool |-> IF c.isNull THEN 0 ELSE orderScore(c.chars)]

\* content || ""
ContentOrEmpty(c) == OrElse(c, Str(<<>>)).chars

\* v || null on a string
NullIfFalsy(v) == IF Truthy(v) THEN v ELSE Null

\* v || null on a number: 0 is falsy
NullIfZero(n) == IF n.isNull \/ n.num = 0 THEN NullNum ELSE n

ReviewItem(reviewer, rating, date, text) ==
  [reviewer |-> reviewer, rating |-> rating, date |-> date, text |-> text]

FaqItem(row) == [content |-> row.content, similarity |-> row.similarity]

----------------------------------------------------------------------------
(* FAQ selection, common to both search routes (route.ts 178-213, part_004 171-193) *)

\* the comparison with > in place of >=, which leaves the boundary out
ThresholdStrict(similarity) == similarity > FAQ_MIN_SIM

\* Number(r.similarity) >= FAQ_MIN_SIM
PassesThreshold(similarity) == similarity >= FAQ_MIN_SIM

\* the hit list without its slice
SliceNone(arr, n) == arr

\* .slice(0, n) of the hit lists
SliceHits(arr, n) == Take(arr, n)

\* the FAQ part of a handler's work: threw when normalize(r.content) met a null content
FaqOutcome(threw, hits, rescued) == [threw |-> threw, hits |-> hits, rescued |-> rescued]

\* a rescue that does not look at the primary selection
rescueAlways(faqHits) == TRUE

\* if (faqHits.length === 0): the rescue runs on an empty primary selection only
rescueRuns(faqHits) == faqHits = <<>>

\* the elements of arr at the positions idx
RowsAt(arr, idx) == [k \in 1..Len(idx) |-> arr[idx[k]]]

\* the rescue selection as positions in faqBucket: the candidates with a positive
\* orderScore, sorted by it, cut to one
\* (.filter(orderScore > 0).sort((a, b) => b.orderScore - a.orderScore).slice(0, 1))
orderLikeOf(faqBucket, positive) ==
  SliceHits(SortDescByKey(positive,
                          [k \in 1..Len(positive) |-> OrderScoreOf[faqBucket[positive[k]].content]]),
            1)

orderLikeIdx(faqBucket) ==
  orderLikeOf(faqBucket, IndicesWhere(faqBucket, LAMBDA r : OrderScoreOf[r.content] > 0, 1))

\* faqBucket: the rows whose source is "faq", in the order of the query result
faqPipeline(faqBucket, query, cap) ==
  LET primary == SliceHits(SelectSeq(faqBucket, LAMBDA r : PassesThreshold(r.similarity)), cap)
      orderLike == RowsAt(faqBucket, orderLikeIdx(faqBucket))
  IN IF ~rescueRuns(primary) THEN FaqOutcome(FALSE, primary, FALSE)
     ELSE IF ~LooksLikeOrderOf[query] THEN FaqOutcome(FALSE, primary, FALSE)
     ELSE IF \E i \in 1..Len(faqBucket) : faqBucket[i].content.isNull
       THEN FaqOutcome(TRUE, <<>>, FALSE)
     ELSE IF orderLike # <<>> THEN FaqOutcome(FALSE, orderLike, TRUE)
     ELSE FaqOutcome(FALSE, primary, FALSE)

----------------------------------------------------------------------------
(* Reviews of src/app/api/search/route.ts (lines 225-277) *)

\* a review of the response: reviewer: parsed.reviewer || null,
\* rating: parsed.rating || null, date: parsed.date || null,
\* text: parsed.review || parsed.raw  (lines 229-248)
searchReview(parsed, raw) ==
  ReviewItem(NullIfFalsy(parsed.reviewer),
             NullIfZero(parsed.rating),
             NullIfFalsy(parsed.date),
             OrElse(parsed.review, Str(raw)))

\* parseReviewText(r.content || "") and the item built from it
SearchReviewItemOf ==
  [c \in ContentPool |-> searchReview(parseReviewText(ContentOrEmpty(c)), ContentOrEmpty(c))]

\* _score: scoreReview(parsed.review || parsed.raw, query)
SearchReviewScoreOf ==
  [c \in ContentPool |-> [q \in Queries |-> scoreReview(SearchReviewItemOf[c].text.chars, q)]]

\* the three reviews the route answers with when the review query returns no row
FallbackReviews ==
  << ReviewItem(Null, NullNum, Str(<<"2","0","2","5","-","1","0","-","2","1">>),
       Str(<<"L","o","v","e","d"," ","t","h","e"," ","r","e","a","d","y"," ","t","o"," ","w","e","a","r"," ","s","a","r","e","e","!"," ","T","h","e"," ","f","i","t"," ","a","n","d"," ","f","i","n","i","s","h","i","n","g"," ","w","e","r","e"," ","a","m","a","z","i","n","g",".">>)),
     ReviewItem(Null, NullNum, Str(<<"2","0","2","5","-","0","9","-","2","9">>),
       Str(<<"E","x","c","e","l","l","e","n","t"," ","s","e","r","v","i","c","e",","," ","t","h","e","y"," ","e","v","e","n"," ","c","u","s","t","o","m","i","z","e","d"," ","t","h","e"," ","s","a","r","e","e"," ","t","o"," ","m","y"," ","m","e","a","s","u","r","e","m","e","n","t","s",".">>)),
     ReviewItem(Null, NullNum, Str(<<"2","0","2","5","-","0","9","-","1","5">>),
       Str(<<"D","e","l","i","v","e","r","y"," ","w","a","s"," ","s","u","p","e","r"," ","q","u","i","c","k"," ","a","n","d"," ","t","h","e"," ","s","a","r","e","e"," ","d","r","a","p","e","d"," ","b","e","a","u","t","i","f","u","l","l","y","!">>)) >>

searchTopItems(top) == [i \in 1..Len(top) |-> SearchReviewItemOf[top[i].content]]

searchReviewItems(reviewRows, query) ==
  IF Len(reviewRows) > 0
    THEN searchTopItems(
           SliceHits(SortDescByKey(reviewRows,
                       [i \in 1..Len(reviewRows) |->
                          SearchReviewScoreOf[reviewRows[i].content][query]]),
                     3))
    ELSE FallbackReviews

----------------------------------------------------------------------------
(* Reviews of part_004 (lines 144-168 and 195-211) *)

\* the review object of an enriched row (lines 155-165):
\* text is parsed.review || base.content
enrichedReview(parsed, content) ==
  ReviewItem(NullIfFalsy(parsed.reviewer),
             parsed.rating,
             NullIfFalsy(parsed.date),
             OrElse(parsed.review, content))

\* the review of the response (lines 199-204): text is r.review?.text || r.content || ""
relatedReview(review, content) ==
  ReviewItem(NullIfFalsy(review.reviewer),
             review.rating,
             NullIfFalsy(review.date),
             Str(OrElse(OrElse(review.text, content), Str(<<>>)).chars))

\* parseReviewText(base.content || "") and the review built from it
Part004ReviewOf ==
  [c \in ContentPool |->
     relatedReview(enrichedReview(parseReviewText_part004(ContentOrEmpty(c)), c), c)]

Part004MatchOf ==
  [c \in ContentPool |-> [q \in Queries |-> textMatchScore(Part004ReviewOf[c].text, q)]]

\* Math.max(0, 5 - i) * 0.2 for the review at 0-based position i, in fifths
positionBonus(i) == IF 5 - i > 0 THEN 5 - i ELSE 0

\* __score in fifths: textMatchScore(text, query) + Math.max(0, 5 - i) * 0.2
part004Score(c, q, i) == 5 * Part004MatchOf[c][q] + positionBonus(i)

\* .map(({ __score, ...keep }) => keep): the reviews at positions top of rawReviews
part004TopItems(rawReviews, top) ==
  [i \in 1..Len(top) |-> Part004ReviewOf[rawReviews[top[i]].content]]

\* .sort((a, b) => b.__score - a.__score).slice(0, MAX_REVIEW_RETURN) of the kept
\* reviews, as their positions in rawReviews
part004Kept(scores, keptIdx) ==
  SliceHits(SortDescByKey(keptIdx, [k \in 1..Len(keptIdx) |-> scores[keptIdx[k]]]),
            MAX_REVIEW_RETURN)

\* .filter((rv) => rv.__score > 0)
part004Filtered(scores) == part004Kept(scores, IndicesWhere(scores, LAMBDA x : x > 0, 1))

\* the positions in rawReviews of the related reviews, best first
part004Order(rawReviews, query) ==
  part004Filtered(
    [i \in 1..Len(rawReviews) |-> part004Score(rawReviews[i].content, query, i - 1)])

part004ReviewItems(rawReviews, query) ==
  part004TopItems(rawReviews, part004Order(rawReviews, query))

----------------------------------------------------------------------------
(* Reviews of part_002 (lines 284-306 and 337-349) *)

\* the text of the review of an enriched row (line 301): pr.review || base.content
Part002TextOf ==
  [c \in ContentPool |-> OrElse(parseReviewText_part002(ContentOrEmpty(c)).review, c)]

\* textMatchScore(rv.review.text, query) of a review that has a text
part002Match(text, q) == IF Truthy(text) THEN scoreReview(text.chars, q) ELSE 0

Part002MatchOf ==
  [c \in ContentPool |-> [q \in Queries |-> part002Match(Part002TextOf[c], q)]]

\* line 337: the positions of the rows that have a review text
part002Parsed(rawReviews) ==
  IndicesWhere(rawReviews, LAMBDA r : Truthy(Part002TextOf[r.content]), 1)

\* lines 339-349 on the parsed reviews, as positions in rawReviews:
\* _score in fifths is textMatchScore(text, query) + Math.max(0, 5 - idx) * 0.2
part002Ranked(rawReviews, parsedIdx, query) ==
  LET top == part004Filtered(
               [k \in 1..Len(parsedIdx) |->
                  5 * Part002MatchOf[rawReviews[parsedIdx[k]].content][query]
                    + positionBonus(k - 1)])
  IN [i \in 1..Len(top) |-> parsedIdx[top[i]]]

part002Order(rawReviews, query) ==
  part002Ranked(rawReviews, part002Parsed(rawReviews), query)

----------------------------------------------------------------------------
(* State *)

VARIABLES
  pc,          \* where the POST handler stands: idle, one of its awaits, or done
  route,       \* which search route handles the request
  body,        \* the parsed request body
  envOk,       \* OPENAI_API_KEY and SUPABASE_CONN are both set
  embedCalls,  \* embedding requests issued
  dbConnects,  \* client.connect() calls issued
  dbQueries,   \* client.query() calls issued
  dbEnds,      \* client.end() calls issued
  rows,        \* result of the nearest-neighbour query
  reviewRows,  \* result of the review query (src/app/api/search/route.ts only)
  response,    \* the response the handler returned
  parser,      \* the parseReviewText variant under study
  parseRaw,    \* its argument
  parsePc,     \* "input" or "parsed"
  parseOut,    \* its result
  clsRow,      \* the row handed to a source classifier
  clsPc,       \* "input", or the classifier that ran
  clsOut,      \* its result
  topkHandler, \* the handler whose topK clamp is under study
  topkRaw,     \* the topK field of the request body
  topkPc,      \* "input" or "clamped"
  topkOut,     \* the topK handed to the candidate query
  rankRows,    \* the google-review rows handed to a review ranking, in candidate order
  rankQuery,   \* the query they are ranked for
  rankPc,      \* "input", or the handler whose ranking ran
  rankOrder,   \* the positions in rankRows of the returned reviews, best first
  scoredText, \* the text handed to a lexical scorer (Null is a null text)
  scoredQuery, \* the query it is scored against
  scorePc, \* "input", or the scorer that ran
  scoreOut, \* its result
  boostRows, \* the rows of the nearest-neighbour query handed to a re-ranking
  boostTopK, \* the number of results asked for
  boostPc, \* which re-ranking ran
  boostScored, \* the ranking score of each row, in order of the rows (ten-thousandths)
  boostOrder, \* the positions of the returned rows, best first
  boostFrom, \* the from field of the answer
  ingVariant, \* the ingest handler deployed: route, ingestOne or part_008
  ingSecret, \* process.env.INGEST_SECRET
  ingEnvOk, \* whether OPENAI_API_KEY and SUPABASE_CONN are set
  dbDocuments, \* the documents table: url to id, 0 where the url has no row
  dbChunks, \* the document_chunks table
  nextId, \* the next value of uuidv4
  ingCount, \* the ingest requests received
  ingPc, \* the position of the ingest handler
  ingMode, \* single or sitemap
  ingUrl, \* the page being ingested
  ingQueue, \* the pages of the sitemap still to ingest
  ingText, \* the text extracted from the page
  ingDocId, \* docId of the handler
  ingI, \* the loop index over the chunks
  ingOpen, \* the clients connected and not ended by the request
  ingEffects, \* the page fetches, embedding calls, connections and writes of the request
  ingTally, \* ingested and failed of sitemap mode
  ingRequest,  \* the x-ingest-secret header and the body of the request
  ingResponse, \* the response of the ingest handler
  smDocs, \* the sitemap documents: what a fetch of each sitemap url returns
  smStack, \* the nested calls of fetchSitemapUrlsDeep, the outermost first
  smPc, \* idle, running, done, or failed when the outermost call throws
  smResult \* the page urls the outermost call returns

handlerVars ==
  <<pc, route, body, envOk, embedCalls, dbConnects, dbQueries, dbEnds, rows, reviewRows, response>>

parseVars == <<parser, parseRaw, parsePc, parseOut>>

classifyVars == <<clsRow, clsPc, clsOut>>

topkVars == <<topkHandler, topkRaw, topkPc, topkOut>>

rankVars == <<rankRows, rankQuery, rankPc, rankOrder>>

scoreVars == <<scoredText, scoredQuery, scorePc, scoreOut>>

boostVars == <<boostRows, boostTopK, boostPc, boostScored, boostOrder, boostFrom>>

ingestVars == <<ingVariant, ingSecret, ingEnvOk, dbDocuments, dbChunks, nextId, ingCount, ingPc, ingMode, ingUrl, ingQueue, ingText, ingDocId, ingI, ingOpen, ingEffects, ingTally, ingRequest, ingResponse>>

sitemapVars == <<smDocs, smStack, smPc, smResult>>

vars == <<handlerVars, parseVars, classifyVars, topkVars, rankVars, scoreVars, boostVars, ingestVars, sitemapVars>>

\* the two search routes with the FAQ-first logic
Routes == {"search", "part_004"}

\* a response field the handler did not set
Absent == "<absent>"

NoResponse ==
  [status |-> 0, source |-> Absent, faq |-> <<>>, reviews |-> <<>>,
   message |-> Absent, canShowReviews |-> Absent, error |-> Absent, debug |-> FALSE]

\* json({ ok: false, error }, status)
ErrorResponse(status, error) == [NoResponse EXCEPT !.status = status, !.error = error]

HandlerIdle ==
  /\ pc = "idle"
  /\ route = "search"
  /\ body = [query |-> Null, debug |-> FALSE]
  /\ envOk = TRUE
  /\ embedCalls = 0
  /\ dbConnects = 0
  /\ dbQueries = 0
  /\ dbEnds = 0
  /\ rows = <<>>
  /\ reviewRows = <<>>
  /\ response = NoResponse

ParseIdle ==
  /\ parser = "search"
  /\ parseRaw = <<>>
  /\ parsePc = "input"
  /\ parseOut = Parsed(Null, NullNum, Null, Null)

ClassifyIdle ==
  /\ clsRow = Row(NullMeta, 0, Null)
  /\ clsPc = "input"
  /\ clsOut = "unknown"

TopKIdle ==
  /\ topkHandler = "part_004"
  /\ topkRaw = [kind |-> "absent", num |-> 0, chars |-> <<>>]
  /\ topkPc = "input"
  /\ topkOut = NaN

RankIdle ==
  /\ rankRows = <<>>
  /\ rankQuery = <<>>
  /\ rankPc = "input"
  /\ rankOrder = <<>>

ScoreIdle ==
  /\ scoredText = Null
  /\ scoredQuery = <<>>
  /\ scorePc = "input"
  /\ scoreOut = 0

BoostIdle ==
  /\ boostRows = <<>>
  /\ boostTopK = 0
  /\ boostPc = "input"
  /\ boostScored = <<>>
  /\ boostOrder = <<>>
  /\ boostFrom = "<absent>"

IngestIdle ==
  /\ ingVariant = "route"
  /\ ingSecret = "<undefined>"
  /\ ingEnvOk = TRUE
  /\ dbDocuments = << >>
  /\ dbChunks = {}
  /\ nextId = 1
  /\ ingCount = 0
  /\ ingPc = "idle"
  /\ ingMode = "single"
  /\ ingUrl = "<absent>"
  /\ ingQueue = <<>>
  /\ ingText = <<>>
  /\ ingDocId = 0
  /\ ingI = 0
  /\ ingOpen = 0
  /\ ingEffects = <<>>
  /\ ingTally = <<>>
  /\ ingRequest = <<>>
  /\ ingResponse = <<>>

SitemapIdle ==
  /\ smDocs = << >>
  /\ smStack = <<>>
  /\ smPc = "idle"
  /\ smResult = <<>>

----------------------------------------------------------------------------
(* The POST handlers of src/app/api/search/route.ts (lines 109-308) and of  *)
(* part_004 (lines 97-240), one action per stretch between two awaits       *)

Init ==
  /\ pc = "idle"
  /\ route = "search"
  /\ body = [query |-> Null, debug |-> FALSE]
  /\ envOk \in BOOLEAN
  /\ embedCalls = 0
  /\ dbConnects = 0
  /\ dbQueries = 0
  /\ dbEnds = 0
  /\ rows = <<>>
  /\ reviewRows = <<>>
  /\ response = NoResponse
  /\ ParseIdle
  /\ ClassifyIdle
  /\ TopKIdle
  /\ RankIdle
  /\ ScoreIdle
  /\ BoostIdle
  /\ IngestIdle
  /\ SitemapIdle

\* the request bodies of the model: { query, debug }
Bodies == [query : QueryPool, debug : BOOLEAN]

query == QueryOf(body.query)

askDebug == body.debug

\* the message of a rejected embedding, connect, query or end call
RejectionMessage == "upstream failure"

\* the message of the TypeError that null.toLowerCase() throws in normalize
NullContentMessage == "Cannot read properties of null (reading 'toLowerCase')"

\* the catch block: json({ ok: false, error: String(err?.message || err) }, 500)
CatchResponse(message) == ErrorResponse(500, message)

Respond(r) ==
  /\ response' = r
  /\ pc' = "done"

\* from the entry to the first await: the body is read, the query checked, the
\* environment checked, and the embedding request issued
Post ==
  /\ pc = "idle"
  /\ \E r \in Routes, b \in Bodies :
       /\ route' = r
       /\ body' = b
       /\ IF QueryOf(b.query) = <<>>
            THEN /\ Respond(ErrorResponse(400, "Missing 'query'"))
                 /\ UNCHANGED embedCalls
          ELSE IF ~envOk
            THEN /\ Respond(ErrorResponse(500, "Missing OPENAI_API_KEY or SUPABASE_CONN"))
                 /\ UNCHANGED embedCalls
          ELSE /\ embedCalls' = embedCalls + 1
               /\ pc' = "embedding"
               /\ UNCHANGED response
  /\ UNCHANGED <<envOk, dbConnects, dbQueries, dbEnds, rows, reviewRows>>
  /\ UNCHANGED <<parseVars, classifyVars, topkVars, rankVars, scoreVars, boostVars, ingestVars, sitemapVars>>

\* the embedding arrives: new Client, client.connect()
EmbedResolved ==
  /\ pc = "embedding"
  /\ dbConnects' = dbConnects + 1
  /\ pc' = "connecting"
  /\ UNCHANGED <<route, body, envOk, embedCalls, dbQueries, dbEnds, rows, reviewRows, response>>
  /\ UNCHANGED <<parseVars, classifyVars, topkVars, rankVars, scoreVars, boostVars, ingestVars, sitemapVars>>

\* an awaited call rejects: control goes to the catch block
Catch ==
  /\ Respond(CatchResponse(RejectionMessage))
  /\ UNCHANGED <<route, body, envOk, embedCalls, dbConnects, dbQueries, dbEnds, rows, reviewRows>>
  /\ UNCHANGED <<parseVars, classifyVars, topkVars, rankVars, scoreVars, boostVars, ingestVars, sitemapVars>>

EmbedRejected ==
  /\ pc = "embedding"
  /\ Catch

\* the connection is up: the nearest-neighbour query is sent
ConnectResolved ==
  /\ pc = "connecting"
  /\ dbQueries' = dbQueries + 1
  /\ pc' = "querying"
  /\ UNCHANGED <<route, body, envOk, embedCalls, dbConnects, dbEnds, rows, reviewRows, response>>
  /\ UNCHANGED <<parseVars, classifyVars, topkVars, rankVars, scoreVars, boostVars, ingestVars, sitemapVars>>

ConnectRejected ==
  /\ pc = "connecting"
  /\ Catch

\* the nearest rows arrive: route.ts sends its review query, part_004 closes the client
QueryResolved ==
  /\ pc = "querying"
  /\ \E result \in NearestRows : rows' = result
  /\ IF route = "search"
       THEN /\ dbQueries' = dbQueries + 1
            /\ pc' = "querying_reviews"
            /\ UNCHANGED dbEnds
       ELSE /\ dbEnds' = dbEnds + 1
            /\ pc' = "ending"
            /\ UNCHANGED dbQueries
  /\ UNCHANGED <<route, body, envOk, embedCalls, dbConnects, reviewRows, response>>
  /\ UNCHANGED <<parseVars, classifyVars, topkVars, rankVars, scoreVars, boostVars, ingestVars, sitemapVars>>

QueryRejected ==
  /\ pc = "querying"
  /\ Catch

\* the stored reviews arrive: client.end()
ReviewQueryResolved ==
  /\ pc = "querying_reviews"
  /\ \E result \in StoredReviewRows : reviewRows' = result
  /\ dbEnds' = dbEnds + 1
  /\ pc' = "ending"
  /\ UNCHANGED <<route, body, envOk, embedCalls, dbConnects, dbQueries, rows, response>>
  /\ UNCHANGED <<parseVars, classifyVars, topkVars, rankVars, scoreVars, boostVars, ingestVars, sitemapVars>>

ReviewQueryRejected ==
  /\ pc = "querying_reviews"
  /\ Catch

EndRejected ==
  /\ pc = "ending"
  /\ Catch

\* the source field of the search route's response (lines 283-287)
responseSource(faqHits, reviewItems) ==
  IF Len(faqHits) > 0 THEN "faq"
  ELSE IF Len(reviewItems) > 0 THEN "google-review"
  ELSE "none"

\* the body the search route answers with (lines 279-303)
searchPayload(out, reviewItems, debug) ==
  IF out.threw THEN CatchResponse(NullContentMessage)
  ELSE [NoResponse EXCEPT
          !.status = 200,
          !.source = responseSource(out.hits, reviewItems),
          !.faq = [i \in 1..Len(out.hits) |-> FaqItem(out.hits[i])],
          !.reviews = reviewItems,
          !.debug = debug]

\* the response of src/app/api/search/route.ts (lines 177-303), or the catch
\* block's when the rescue threw
searchResponse(faqRows, storedReviews, q, debug) ==
  searchPayload(
    faqPipeline(SelectSeq(faqRows, LAMBDA r : inlineSource(r) = "faq"), q, 3),
    searchReviewItems(storedReviews, q),
    debug)

\* the body part_004 answers with (lines 214-235)
part004Payload(out, relatedReviews, debug) ==
  IF out.threw THEN CatchResponse(NullContentMessage)
  ELSE [NoResponse EXCEPT
          !.status = 200,
          !.faq = [i \in 1..Len(out.hits) |-> FaqItem(out.hits[i])],
          !.reviews = relatedReviews,
          !.message = IF Len(out.hits) = 0 /\ Len(relatedReviews) = 0
                        THEN "I couldn't find this in FAQs or reviews."
                        ELSE Absent,
          !.debug = debug]

\* the response of part_004 (lines 143-235), or the catch block's
part004Response(nearest, q, debug) ==
  part004Payload(
    faqPipeline(SelectSeq(nearest, LAMBDA r : rowSource(r) = "faq"), q, MAX_FAQ_RETURN),
    part004ReviewItems(SelectSeq(nearest, LAMBDA r : rowSource(r) = "google-review"), q),
    debug)

\* the client is closed: the rows are ranked and the response is built
EndResolved ==
  /\ pc = "ending"
  /\ Respond(IF route = "search"
               THEN searchResponse(rows, reviewRows, query, askDebug)
               ELSE part004Response(rows, query, askDebug))
  /\ UNCHANGED <<route, body, envOk, embedCalls, dbConnects, dbQueries, dbEnds, rows, reviewRows>>
  /\ UNCHANGED <<parseVars, classifyVars, topkVars, rankVars, scoreVars, boostVars, ingestVars, sitemapVars>>

----------------------------------------------------------------------------
(* The POST handler of the log route (part_015, and src/app/api/log/route.ts): *)
(* the query field of the body stands for its query_text                       *)

\* NextResponse.json({ ok: true })
LogOk == [NoResponse EXCEPT !.status = 200]

\* the handler returns: the finally block calls client.end(), whose rejection is
\* swallowed, and the response goes out
LogReturn(r) ==
  /\ dbEnds' = dbEnds + 1
  /\ Respond(r)

\* the body is read and query_text checked: a body that is not JSON goes to the
\* catch block, if (!body?.query_text) answers 400, else client.connect() is
\* called; the text is not trimmed
LogPost ==
  /\ pc = "idle"
  /\ route' = "log"
  /\ \/ /\ body' = [query |-> Null, debug |-> FALSE]
        /\ LogReturn(CatchResponse("Unexpected end of JSON input"))
        /\ UNCHANGED dbConnects
     \/ \E b \in Bodies :
          /\ body' = b
          /\ IF ~Truthy(b.query)
               THEN /\ LogReturn(ErrorResponse(400, "query_text required"))
                    /\ UNCHANGED dbConnects
               ELSE /\ dbConnects' = dbConnects + 1
                    /\ pc' = "log_connecting"
                    /\ UNCHANGED <<dbEnds, response>>
  /\ UNCHANGED <<envOk, embedCalls, dbQueries, rows, reviewRows>>
  /\ UNCHANGED <<parseVars, classifyVars, topkVars, rankVars, scoreVars, boostVars, ingestVars, sitemapVars>>

\* the connection is up: the insert into chat_queries is sent
LogConnectResolved ==
  /\ pc = "log_connecting"
  /\ dbQueries' = dbQueries + 1
  /\ pc' = "log_inserting"
  /\ UNCHANGED <<route, body, envOk, embedCalls, dbConnects, dbEnds, rows, reviewRows, response>>
  /\ UNCHANGED <<parseVars, classifyVars, topkVars, rankVars, scoreVars, boostVars, ingestVars, sitemapVars>>

\* an awaited call rejects: the catch block, then the finally block
LogCatch ==
  /\ LogReturn(CatchResponse(RejectionMessage))
  /\ UNCHANGED <<route, body, envOk, embedCalls, dbConnects, dbQueries, rows, reviewRows>>
  /\ UNCHANGED <<parseVars, classifyVars, topkVars, rankVars, scoreVars, boostVars, ingestVars, sitemapVars>>

LogConnectRejected ==
  /\ pc = "log_connecting"
  /\ LogCatch

\* the insert is done
LogInsertResolved ==
  /\ pc = "log_inserting"
  /\ LogReturn(LogOk)
  /\ UNCHANGED <<route, body, envOk, embedCalls, dbConnects, dbQueries, rows, reviewRows>>
  /\ UNCHANGED <<parseVars, classifyVars, topkVars, rankVars, scoreVars, boostVars, ingestVars, sitemapVars>>

LogInsertRejected ==
  /\ pc = "log_inserting"
  /\ LogCatch

Next ==
  \/ Post
  \/ EmbedResolved
  \/ EmbedRejected
  \/ ConnectResolved
  \/ ConnectRejected
  \/ QueryResolved
  \/ QueryRejected
  \/ ReviewQueryResolved
  \/ ReviewQueryRejected
  \/ EndResolved
  \/ EndRejected
  \/ LogPost
  \/ LogConnectResolved
  \/ LogConnectRejected
  \/ LogInsertResolved
  \/ LogInsertRejected

Spec == Init /\ [][Next]_vars

----------------------------------------------------------------------------
(* The three parseReviewText functions on their own *)

NL == <<"\n">>

T_reviewerJane == <<"R","e","v","i","e","w","e","r",":"," ","J","a","n","e"," ","D","o","e">>

T_displayName ==
  <<"d","i","s","p","l","a","y","N","a","m","e",":"," ","'","J","a","n","e","'">>

T_rating5 == <<"R","a","t","i","n","g",":"," ","5">>

T_rating9 == <<"R","a","t","i","n","g",":"," ","9">>

T_rating10 == <<"R","a","t","i","n","g",":"," ","1","0">>

T_rating5_9 == <<"R","a","t","i","n","g",":"," ","5",".","9">>

T_fourOfFive == <<"4",".","5","/","5">>

T_date == <<"D","a","t","e",":"," ","2","0","2","4","-","0","1","-","0","1">>

T_reviewGreatFit == <<"R","e","v","i","e","w",":"," ","G","r","e","a","t"," ","f","i","t">>

T_bulletGreatFit == <<"-"," ","G","r","e","a","t"," ","f","i","t">>

T_greatFit == <<"G","r","e","a","t"," ","f","i","t">>

ReviewerLines == { <<>>, T_reviewerJane, T_displayName }

RatingLines == { <<>>, T_rating5, T_fourOfFive, T_rating9, T_rating10, T_rating5_9 }

DateLines == { <<>>, T_date }

BodyLines == { <<>>, T_reviewGreatFit, T_bulletGreatFit, T_greatFit }

\* the lines that are present, separated by newlines
RECURSIVE JoinLines(_)
JoinLines(lines) ==
  IF lines = <<>> THEN <<>>
  ELSE IF Head(lines) = <<>> THEN JoinLines(Tail(lines))
  ELSE IF JoinLines(Tail(lines)) = <<>> THEN Head(lines)
  ELSE Head(lines) \o NL \o JoinLines(Tail(lines))

\* the review texts handed to the parsers
RawPool ==
  { JoinLines(<<a, b, c, d>>) :
      a \in ReviewerLines, b \in RatingLines, c \in DateLines, d \in BodyLines }

\* the four-line review of the documented format
FourLineReview == JoinLines(<<T_reviewerJane, T_rating5, T_date, T_reviewGreatFit>>)

ParseInit ==
  /\ HandlerIdle
  /\ ParseIdle
  /\ ClassifyIdle
  /\ TopKIdle
  /\ RankIdle
  /\ ScoreIdle
  /\ BoostIdle
  /\ IngestIdle
  /\ SitemapIdle

Parse(name, result) ==
  /\ parser' = name
  /\ parseOut' = result
  /\ parsePc' = "parsed"
  /\ UNCHANGED <<handlerVars, classifyVars, topkVars, rankVars, scoreVars, boostVars, ingestVars, sitemapVars>>

\* parseReviewText of src/app/api/search/route.ts
ParseSearch ==
  /\ parsePc = "input"
  /\ \E raw \in RawPool :
       /\ parseRaw' = raw
       /\ Parse("search", parseReviewText(raw))

\* parseReviewText of part_004
ParsePart004 ==
  /\ parsePc = "input"
  /\ \E raw \in RawPool :
       /\ parseRaw' = raw
       /\ Parse("part_004", parseReviewText_part004(raw))

\* parseReviewText of part_002
ParsePart002 ==
  /\ parsePc = "input"
  /\ \E raw \in RawPool :
       /\ parseRaw' = raw
       /\ Parse("part_002", parseReviewText_part002(raw))

ParseNext ==
  \/ ParseSearch
  \/ ParsePart004
  \/ ParsePart002

ParseSpec == ParseInit /\ [][ParseNext]_vars

----------------------------------------------------------------------------
(* The three source classifiers on their own *)

Tags == { NoTag, "", "faq", "google-review", "product" }

\* values of the meta column
MetaPool ==
  {NullMeta} \cup
  { Meta(src, type, bucket) :
      src \in Tags, type \in {NoTag, "google-review"}, bucket \in {NoTag, "faq"} }

\* values of the doc_meta column
DocMetaPool ==
  { NullMeta, Meta(NoTag, NoTag, NoTag), Meta("google-review", NoTag, NoTag),
    Meta(NoTag, "product", NoTag) }

\* the rows handed to the classifiers
TaggedRows ==
  { [Row(m, 0, Null) EXCEPT !.doc_meta = d, !.sourceBucket = b] :
      m \in MetaPool, d \in DocMetaPool, b \in {NoTag, "google-review"} }

ClassifyInit ==
  /\ HandlerIdle
  /\ ParseIdle
  /\ ClassifyIdle
  /\ TopKIdle
  /\ RankIdle
  /\ ScoreIdle
  /\ BoostIdle
  /\ IngestIdle
  /\ SitemapIdle

Classify(name, result) ==
  /\ clsPc' = name
  /\ clsOut' = result
  /\ UNCHANGED <<handlerVars, parseVars, topkVars, rankVars, scoreVars, boostVars, ingestVars, sitemapVars>>

ClassifyRowSource ==
  /\ clsPc = "input"
  /\ \E row \in TaggedRows :
       /\ clsRow' = row
       /\ Classify("rowSource", rowSource(row))

ClassifyDbRowToSource ==
  /\ clsPc = "input"
  /\ \E row \in TaggedRows :
       /\ clsRow' = row
       /\ Classify("dbRowToSource", dbRowToSource(row))

ClassifyInline ==
  /\ clsPc = "input"
  /\ \E row \in TaggedRows :
       /\ clsRow' = row
       /\ Classify("inlineSource", inlineSource(row))

ClassifyNext ==
  \/ ClassifyRowSource
  \/ ClassifyDbRowToSource
  \/ ClassifyInline

ClassifySpec == ClassifyInit /\ [][ClassifyNext]_vars

----------------------------------------------------------------------------
(* The topK of the request: Math.min(Math.max(Number(body?.topK ?? d), 1), m) *)
(* part_004 line 101 (d = 12, m = 30) and part_000 line 16 (d = 5, m = 20)    *)

\* the default and the upper limit of part_004
DefaultTopK == 12

MAX_K == 30

\* the default and the upper limit of part_000
DefaultTopK_part000 == 5

MAX_K_part000 == 20

\* JSON values of the topK field: absent, null, a number (in hundredths), a string
JsonAbsent == [kind |-> "absent", num |-> 0, chars |-> <<>>]

JsonNull == [kind |-> "null", num |-> 0, chars |-> <<>>]

JsonNumber(n) == [kind |-> "number", num |-> n, chars |-> <<>>]

JsonString(t) == [kind |-> "string", num |-> 0, chars |-> t]

\* v ?? d
Coalesce(v, d) == IF v.kind \in {"absent", "null"} THEN d ELSE v

\* Number(v) of a number or of a string
ToNumber(v) == IF v.kind = "number" THEN Num(v.num) ELSE NumberOf(v.chars)

\* Math.max and Math.min: NaN when an argument is NaN
MathMax(a, b) ==
  IF a.isNaN \/ b.isNaN THEN NaN ELSE IF a.num >= b.num THEN a ELSE b

MathMin(a, b) ==
  IF a.isNaN \/ b.isNaN THEN NaN ELSE IF a.num <= b.num THEN a ELSE b

clampTopK(raw, default, max) ==
  MathMin(MathMax(ToNumber(Coalesce(raw, JsonNumber(100 * default))), Num(100)), Num(100 * max))

topK_part004(raw) == clampTopK(raw, DefaultTopK, MAX_K)

topK_part000(raw) == clampTopK(raw, DefaultTopK_part000, MAX_K_part000)

\* the largest topK a caller of the model sends
MaxTopKInput == 32

\* the topK fields of the model: absent, null, the halves from -2 to MaxTopKInput
\* and four strings
TopKPool ==
  {JsonAbsent, JsonNull}
    \cup { JsonNumber(50 * h) : h \in -4..(2 * MaxTopKInput) }
    \cup { JsonString(t) : t \in { <<>>, <<"7">>, <<"2", ".", "5">>, <<"a", "b", "c">> } }

\* the upper limit of the handler under study
MaxKOf(handler) == IF handler = "part_004" THEN MAX_K ELSE MAX_K_part000

TopKInit ==
  /\ HandlerIdle
  /\ ParseIdle
  /\ ClassifyIdle
  /\ TopKIdle
  /\ RankIdle
  /\ ScoreIdle
  /\ BoostIdle
  /\ IngestIdle
  /\ SitemapIdle

Clamp(name, result) ==
  /\ topkHandler' = name
  /\ topkPc' = "clamped"
  /\ topkOut' = result
  /\ UNCHANGED <<handlerVars, parseVars, classifyVars, rankVars, scoreVars, boostVars, ingestVars, sitemapVars>>

ClampPart004 ==
  /\ topkPc = "input"
  /\ \E raw \in TopKPool :
       /\ topkRaw' = raw
       /\ Clamp("part_004", topK_part004(raw))

ClampPart000 ==
  /\ topkPc = "input"
  /\ \E raw \in TopKPool :
       /\ topkRaw' = raw
       /\ Clamp("part_000", topK_part000(raw))

TopKNext ==
  \/ ClampPart004
  \/ ClampPart000

TopKSpec == TopKInit /\ [][TopKNext]_vars

----------------------------------------------------------------------------
(* The POST handler of the answer route of part_016 (lines 29-181): the     *)
(* showReviews flag selects the reviews-only branch (CASE A, lines 63-112)  *)
(* or the FAQ branch (CASE B, lines 117-176)                                *)

FAQ_MIN_SIM_answer == 78

JsonBool(b) == [kind |-> "bool", num |-> IF b THEN 1 ELSE 0, chars |-> <<>>]

\* !!v
JsonTruthy(v) ==
  CASE v.kind \in {"absent", "null"} -> FALSE
    [] v.kind \in {"bool", "number"} -> v.num # 0
    [] OTHER -> v.chars # <<>>

T_yes == <<"y","e","s">>

\* the showReviews fields of the model
ShowReviewsPool ==
  { JsonAbsent, JsonNull, JsonBool(FALSE), JsonBool(TRUE), JsonNumber(0), JsonNumber(100),
    JsonString(<<>>), JsonString(T_yes) }

\* the request bodies of the answer route: { query, showReviews }
AnswerBodies == [query : QueryPool, showReviews : ShowReviewsPool]

\* a handler whose flag is never read
wantReviewsNever(b) == FALSE

\* line 33: !!body?.showReviews
wantReviewsOnly(b) == JsonTruthy(b.showReviews)

A_lovedSaree == <<"L","o","v","e","d"," ","t","h","e"," ","s","a","r","e","e">>

A_whereOrder == <<"W","h","e","r","e"," ","i","s"," ","m","y"," ","o","r","d","e","r","?"," ","I","t"," ","c","a","m","e"," ","l","a","t","e">>

\* the stored google-review chunks the review query of CASE A selects from
AnswerReviewPool ==
  { Row(Meta("google-review", NoTag, NoTag), 0, Str(A_lovedSaree)),
    Row(Meta("google-review", NoTag, NoTag), 0, Str(A_whereOrder)) }

\* dc.content ILIKE '%' || $1 || '%' for a query without % and _
ILike(content, q) == ~content.isNull /\ Includes(ToLower(content.chars), ToLower(q))

\* the results the review query of CASE A can return for query q
AnswerReviewRows(q) ==
  SeqsUpTo({ r \in AnswerReviewPool : ILike(r.content, q) }, MaxReviewRows)

\* scoreText of part_016, lines 19-27
scoreText(text, q) == CountHits(QueryWords(q), normalize(text))

\* CASE A, lines 84-103: rank by score (created_at keeps the order the rows
\* came in, newest first), cut, and shape
answerReviews(reviewRws, q) ==
  LET ranked == SortDescByKey(reviewRws,
                  [i \in 1..Len(reviewRws) |-> scoreText(ContentOrEmpty(reviewRws[i].content), q)])
      top == Take(ranked, MAX_REVIEW_RETURN)
  IN [i \in 1..Len(top) |-> [content |-> top[i].content, source |-> "google-review"]]

\* line 139: (r.meta && typeof r.meta === 'object' && (r.meta.source || r.meta.type)) || 'faq'
answerSource(row) ==
  LET m == MetaOrEmpty(row.meta)
  IN FirstTruthy(<<m.source, m.type, DefaultSource>>)

\* CASE B, lines 149-162
answerFaqHits(rws) ==
  LET hits == Take(SelectSeq(rws, LAMBDA r : answerSource(r) = "faq"
                                             /\ r.similarity >= FAQ_MIN_SIM_answer),
                   MAX_FAQ_RETURN)
  IN [i \in 1..Len(hits) |->
        [content |-> hits[i].content, similarity |-> hits[i].similarity, source |-> "faq"]]

\* the shape of the responses of the answer route
AnswerResponse(status, source, results, canShowReviews, message, error) ==
  [status |-> status, source |-> source, results |-> results,
   canShowReviews |-> canShowReviews, message |-> message, error |-> error]

AnswerError(status, error) == AnswerResponse(status, Absent, <<>>, Absent, Absent, error)

AnswerIdle ==
  /\ pc = "idle"
  /\ route = "answer"
  /\ body = [query |-> Null, showReviews |-> JsonAbsent]
  /\ embedCalls = 0
  /\ dbConnects = 0
  /\ dbQueries = 0
  /\ dbEnds = 0
  /\ rows = <<>>
  /\ reviewRows = <<>>
  /\ response = AnswerError(0, Absent)

AnswerInit ==
  /\ AnswerIdle
  /\ envOk \in BOOLEAN
  /\ ParseIdle
  /\ ClassifyIdle
  /\ TopKIdle
  /\ RankIdle
  /\ ScoreIdle
  /\ BoostIdle
  /\ IngestIdle
  /\ SitemapIdle

\* lines 30-50: the body is read, the query and the environment checked, and
\* client.connect() issued
AnswerPost ==
  /\ pc = "idle"
  /\ \E b \in AnswerBodies :
       /\ body' = b
       /\ IF QueryOf(b.query) = <<>>
            THEN /\ Respond(AnswerError(400, "Missing 'query'"))
                 /\ UNCHANGED dbConnects
          ELSE IF ~envOk
            THEN /\ Respond(AnswerError(500, "Missing OPENAI_API_KEY or SUPABASE_CONN"))
                 /\ UNCHANGED dbConnects
          ELSE /\ dbConnects' = dbConnects + 1
               /\ pc' = "answer_connecting"
               /\ UNCHANGED response
  /\ UNCHANGED <<route, envOk, embedCalls, dbQueries, dbEnds, rows, reviewRows>>
  /\ UNCHANGED <<parseVars, classifyVars, topkVars, rankVars, scoreVars, boostVars, ingestVars, sitemapVars>>

\* lines 177-180: the catch block
AnswerCatch ==
  /\ Respond(AnswerError(500, RejectionMessage))
  /\ UNCHANGED <<route, body, envOk, embedCalls, dbConnects, dbQueries, dbEnds, rows, reviewRows>>
  /\ UNCHANGED <<parseVars, classifyVars, topkVars, rankVars, scoreVars, boostVars, ingestVars, sitemapVars>>

\* lines 50-56: the connection is up, the embedding request is issued
AnswerConnectResolved ==
  /\ pc = "answer_connecting"
  /\ embedCalls' = embedCalls + 1
  /\ pc' = "answer_embedding"
  /\ UNCHANGED <<route, body, envOk, dbConnects, dbQueries, dbEnds, rows, reviewRows, response>>
  /\ UNCHANGED <<parseVars, classifyVars, topkVars, rankVars, scoreVars, boostVars, ingestVars, sitemapVars>>

AnswerConnectRejected ==
  /\ pc = "answer_connecting"
  /\ AnswerCatch

\* lines 57-66 and 117: the embedding arrives; CASE A sends the review query,
\* CASE B the nearest-neighbour query
AnswerEmbedResolved ==
  /\ pc = "answer_embedding"
  /\ dbQueries' = dbQueries + 1
  /\ pc' = IF wantReviewsOnly(body) THEN "answer_querying_reviews" ELSE "answer_querying_nearest"
  /\ UNCHANGED <<route, body, envOk, embedCalls, dbConnects, dbEnds, rows, reviewRows, response>>
  /\ UNCHANGED <<parseVars, classifyVars, topkVars, rankVars, scoreVars, boostVars, ingestVars, sitemapVars>>

AnswerEmbedRejected ==
  /\ pc = "answer_embedding"
  /\ AnswerCatch

\* lines 66-97: the review rows arrive, are ranked, and client.end() is issued
AnswerReviewQueryResolved ==
  /\ pc = "answer_querying_reviews"
  /\ reviewRows' \in AnswerReviewRows(query)
  /\ dbEnds' = dbEnds + 1
  /\ pc' = "answer_ending_reviews"
  /\ UNCHANGED <<route, body, envOk, embedCalls, dbConnects, dbQueries, rows, response>>
  /\ UNCHANGED <<parseVars, classifyVars, topkVars, rankVars, scoreVars, boostVars, ingestVars, sitemapVars>>

AnswerReviewQueryRejected ==
  /\ pc = "answer_querying_reviews"
  /\ AnswerCatch

\* lines 99-111: the response of CASE A
AnswerReviewEndResolved ==
  /\ pc = "answer_ending_reviews"
  /\ Respond(AnswerResponse(200, "google-review", answerReviews(reviewRows, query),
                            Absent, Absent, Absent))
  /\ UNCHANGED <<route, body, envOk, embedCalls, dbConnects, dbQueries, dbEnds, rows, reviewRows>>
  /\ UNCHANGED <<parseVars, classifyVars, topkVars, rankVars, scoreVars, boostVars, ingestVars, sitemapVars>>

AnswerReviewEndRejected ==
  /\ pc = "answer_ending_reviews"
  /\ AnswerCatch

\* lines 117-134: the nearest rows arrive and client.end() is issued
AnswerNearestResolved ==
  /\ pc = "answer_querying_nearest"
  /\ rows' \in NearestRows
  /\ dbEnds' = dbEnds + 1
  /\ pc' = "answer_ending"
  /\ UNCHANGED <<route, body, envOk, embedCalls, dbConnects, dbQueries, reviewRows, response>>
  /\ UNCHANGED <<parseVars, classifyVars, topkVars, rankVars, scoreVars, boostVars, ingestVars, sitemapVars>>

AnswerNearestRejected ==
  /\ pc = "answer_querying_nearest"
  /\ AnswerCatch

\* lines 137-176: the response of CASE B
answerFaqResponse(hits) ==
  IF hits # <<>>
    THEN AnswerResponse(200, "faq", hits, "true", Absent, Absent)
    ELSE AnswerResponse(200, "none", <<>>, "true",
                        "I could not find this in FAQs. Do you want to see what customers said about WiMO?",
                        Absent)

AnswerEndResolved ==
  /\ pc = "answer_ending"
  /\ Respond(answerFaqResponse(answerFaqHits(rows)))
  /\ UNCHANGED <<route, body, envOk, embedCalls, dbConnects, dbQueries, dbEnds, rows, reviewRows>>
  /\ UNCHANGED <<parseVars, classifyVars, topkVars, rankVars, scoreVars, boostVars, ingestVars, sitemapVars>>

AnswerEndRejected ==
  /\ pc = "answer_ending"
  /\ AnswerCatch

AnswerNext ==
  \/ AnswerPost
  \/ AnswerConnectResolved
  \/ AnswerConnectRejected
  \/ AnswerEmbedResolved
  \/ AnswerEmbedRejected
  \/ AnswerReviewQueryResolved
  \/ AnswerReviewQueryRejected
  \/ AnswerReviewEndResolved
  \/ AnswerReviewEndRejected
  \/ AnswerNearestResolved
  \/ AnswerNearestRejected
  \/ AnswerEndResolved
  \/ AnswerEndRejected

AnswerSpec == AnswerInit /\ [][AnswerNext]_vars

----------------------------------------------------------------------------
(* The review rankings of part_004 (lines 195-211) and part_002 (lines      *)
(* 337-349) on their own, on candidate lists long enough to pass the last   *)
(* position that earns a bonus                                              *)

\* the longest candidate list: one position past the five that earn a bonus
MaxRankRows == 6

\* google-review rows that contain both words of 'Great fit?', one of them, or none
RankPool ==
  { Row(Meta("google-review", NoTag, NoTag), 0, Str(C_reviewFit)),
    Row(Meta("google-review", NoTag, NoTag), 0, Str(C_niceFit)),
    Row(Meta("google-review", NoTag, NoTag), 0, Str(C_fastDelivery)) }

RankQueries == { QueryOf(Str(Q_fit)), QueryOf(Str(Q_order)) }

RankInit ==
  /\ HandlerIdle
  /\ ParseIdle
  /\ ClassifyIdle
  /\ TopKIdle
  /\ RankIdle
  /\ ScoreIdle
  /\ BoostIdle
  /\ IngestIdle
  /\ SitemapIdle

Rank(name, order) ==
  /\ rankPc' = name
  /\ rankOrder' = order
  /\ UNCHANGED <<handlerVars, parseVars, classifyVars, topkVars, scoreVars, boostVars, ingestVars, sitemapVars>>

RankPart004 ==
  /\ rankPc = "input"
  /\ \E rws \in SeqsUpTo(RankPool, MaxRankRows), q \in RankQueries :
       /\ rankRows' = rws
       /\ rankQuery' = q
       /\ Rank("part_004", part004Order(rws, q))

RankPart002 ==
  /\ rankPc = "input"
  /\ \E rws \in SeqsUpTo(RankPool, MaxRankRows), q \in RankQueries :
       /\ rankRows' = rws
       /\ rankQuery' = q
       /\ Rank("part_002", part002Order(rws, q))

\* faq rows whose content holds two intent keywords, one (twice), or none
RescuePool ==
  { Row(Meta("faq", NoTag, NoTag), 0, Str(C_orderStatus)),
    Row(Meta("faq", NoTag, NoTag), 0, Str(C_delivery)),
    Row(Meta("faq", NoTag, NoTag), 0, Str(C_fastDelivery)),
    Row(Meta("faq", NoTag, NoTag), 0, Str(C_care)) }

\* the rescue selection of part_004 (lines 179-190) among faq candidates below the
\* threshold, for a query that looks like an order question
RankRescue ==
  /\ rankPc = "input"
  /\ \E rws \in SeqsUpTo(RescuePool, MaxRows) :
       /\ rankRows' = rws
       /\ rankQuery' = QueryOf(Str(Q_order))
       /\ Rank("rescue", orderLikeIdx(rws))

RankNext ==
  \/ RankPart004
  \/ RankPart002
  \/ RankRescue

RankSpec == RankInit /\ [][RankNext]_vars

----------------------------------------------------------------------------
(* The lexical scorers on their own: textMatchScore of part_004 (lines      *)
(* 20-29) and scoreReview of src/app/api/search/route.ts (lines 25-41)      *)

S_greatUpper == <<"G","R","E","A","T","!">>

S_greatTwice == <<"g","r","e","a","t"," ","g","r","e","a","t"," ","f","i","t"," ","i","t">>

\* the texts handed to the scorers
ScoreTexts ==
  { <<"I","t"," ","f","i","t","s">>,
    <<"G","r","e","a","t"," ","f","i","t">>,
    <<"N","i","c","e"," ","f","i","t">>,
    <<"F","a","s","t"," ","d","e","l","i","v","e","r","y">>,
    S_greatUpper,
    <<"f","i","t","t","e","d">>,
    <<"O","r","d","e","r","-","s","t","a","t","u","s",":"," ","s","e","n","t">>,
    <<>> }

\* the queries they are scored against
ScoreQueries ==
  { <<>>,
    <<"g","r","e","a","t"," ","f","i","t">>,
    <<"G","r","e","a","t"," "," ","f","i","t","?">>,
    <<"f","i","t"," ","f","i","t">>,
    S_greatTwice,
    <<"s","a","r","e","e">>,
    <<"o","r","d","e","r"," ","s","t","a","t","u","s">>,
    <<" "," ","i","t"," "," ">> }

ScoreInit ==
  /\ HandlerIdle
  /\ ParseIdle
  /\ ClassifyIdle
  /\ TopKIdle
  /\ RankIdle
  /\ ScoreIdle
  /\ BoostIdle
  /\ IngestIdle
  /\ SitemapIdle

Score(name, result) ==
  /\ scorePc' = name
  /\ scoreOut' = result
  /\ UNCHANGED <<handlerVars, parseVars, classifyVars, topkVars, rankVars, boostVars, ingestVars, sitemapVars>>

\* textMatchScore(text, query): the text may be null or undefined
ScoreTextMatch ==
  /\ scorePc = "input"
  /\ \E t \in { Str(x) : x \in ScoreTexts } \cup {Null}, q \in ScoreQueries :
       /\ scoredText' = t
       /\ scoredQuery' = q
       /\ Score("textMatchScore", textMatchScore(t, q))

\* scoreReview(reviewText, query)
ScoreReview ==
  /\ scorePc = "input"
  /\ \E t \in ScoreTexts, q \in ScoreQueries :
       /\ scoredText' = Str(t)
       /\ scoredQuery' = q
       /\ Score("scoreReview", scoreReview(t, q))

ScoreNext ==
  \/ ScoreTextMatch
  \/ ScoreReview

ScoreSpec == ScoreInit /\ [][ScoreNext]_vars

----------------------------------------------------------------------------
(* Re-ranking by page kind: part_001, part_000 and the answer route.           *)
(* Similarities and boosts are hundredths, multiplying factors are hundredths, *)
(* ranking scores are ten-thousandths.                                         *)

U_faqPage == <<"h","t","t","p","s",":","/","/","w","w","w",".","r","e","a","d","y","t","o","w","e","a","r","s","a","r","e","e",".","c","o","m","/","f","a","q","s","-","f","o","r","-","r","e","a","d","y","-","t","o","-","w","e","a","r","-","s","a","r","e","e">>

U_faqReturns == <<"f","a","q",":","r","e","t","u","r","n","s">>

U_wixFaq == <<"h","t","t","p","s",":","/","/","w","w","w",".","r","e","a","d","y","t","o","w","e","a","r","s","a","r","e","e",".","c","o","m","/","s","/","f","/","s","i","z","e","s">>

U_product == <<"h","t","t","p","s",":","/","/","w","w","w",".","r","e","a","d","y","t","o","w","e","a","r","s","a","r","e","e",".","c","o","m","/","p","r","o","d","u","c","t","s","/","s","i","l","k">>

U_shipping == <<"h","t","t","p","s",":","/","/","w","w","w",".","r","e","a","d","y","t","o","w","e","a","r","s","a","r","e","e",".","c","o","m","/","s","h","i","p","p","i","n","g","-","p","o","l","i","c","y">>

U_about == <<"h","t","t","p","s",":","/","/","w","w","w",".","r","e","a","d","y","t","o","w","e","a","r","s","a","r","e","e",".","c","o","m","/","a","b","o","u","t">>

\* part_001, lines 9-11
FAQ_URLS == {U_faqPage}

\* a row of the nearest-neighbour query: url of the document, sourceBucket of the
\* document (coalesced to "other" by the query of the answer route, not selected
\* by the other two), similarity
BoostRow(url, bucket, sim) == [url |-> url, source_bucket |-> bucket, similarity |-> sim]

\* r.url || '' and r.url ?? '' of a string or null
UrlOrEmpty(url) == IF url.isNull THEN <<>> ELSE url.chars

\* part_001, lines 70-86: the factor of a row
isFaqUrl_part001(url) == \E f \in FAQ_URLS : StartsWith(url, f)

isPolicy_part001(url) ==
  \/ Includes(url, <<"/","s","h","i","p","p","i","n","g">>)
  \/ Includes(url, <<"/","p","o","l","i","c">>)
  \/ Includes(url, <<"/","c","a","n","c","e","l","l","a","t","i","o","n">>)

boostFactor_part001(url) ==
  ((IF isFaqUrl_part001(url) THEN 14 ELSE 10) * (IF isPolicy_part001(url) THEN 9 ELSE 10))

\* part_001, line 93: similarity: Number(r.similarity) * boost
boostedSimilarity_part001(r) == r.similarity * boostFactor_part001(UrlOrEmpty(r.url))

\* part_000, lines 77-87
isFaq_part000(url) ==
  \/ Includes(url, <<"/","f","a","q","s">>)
  \/ Includes(url, <<"/","s","/","f","/">>)
  \/ Includes(url, <<"/","f","a","q">>)

isProduct_part000(url) ==
  \/ Includes(url, <<"/","p","r","o","d","u","c","t","s","/">>)
  \/ Includes(url, <<"/","c","a","t","e","g","o","r","y","/">>)

isPolicy_part000(url) ==
  \/ Includes(url, <<"/","s","h","i","p","p","i","n","g">>)
  \/ Includes(url, <<"/","r","e","t","u","r","n">>)
  \/ Includes(url, <<"/","c","a","n","c","e","l","l","a","t","i","o","n">>)

\* part_000, lines 75 and 89-95
boost_part000(url) ==
  IF isFaq_part000(url) THEN 30
  ELSE IF isProduct_part000(url) THEN 15
  ELSE IF isPolicy_part000(url) THEN 5
  ELSE 0

\* part_000, lines 97-98
boostedScore_part000(r) == 100 * (r.similarity + boost_part000(UrlOrEmpty(r.url)))

\* answer route, lines 88-91: r.url?.startsWith and r.url?.includes are undefined
\* on a null url
isFaq_answer(r) ==
  \/ r.source_bucket = "faq"
  \/ (~r.url.isNull /\ StartsWith(r.url.chars, <<"f","a","q",":">>))
  \/ (~r.url.isNull /\ Includes(r.url.chars, <<"/","s","/","f","/">>))

\* answer route, line 92
bonus_answer(r) == IF isFaq_answer(r) THEN 25 ELSE 0

\* answer route, lines 87 and 95 (Number(r.similarity) || 0 of a number that is
\* not NaN is the number)
boostedScore_answer(r) == 100 * (r.similarity + bonus_answer(r))

\* answer route, line 104
SIM_THRESHOLD == 55

\* .sort((a, b) => b.score - a.score).slice(0, topK) as positions in the rows;
\* slice(0, NaN) is empty and a fractional end is truncated
rerankOrder(scored, topK) ==
  SliceHits(SortDescByKey([k \in 1..Len(scored) |-> k], scored),
            IF topK.isNaN THEN 0 ELSE topK.num \div 100)

\* answer route, lines 101-130: the from field for the returned order
answerFrom(scored, order) ==
  IF order = <<>> \/ scored[order[1]] < 100 * SIM_THRESHOLD THEN "fallback" ELSE "faq"

\* the largest number of rows handed to a re-ranking
MaxBoostRows == 2

\* rows of the two search routes: six urls, two similarities
UrlBoostPool ==
  { BoostRow(u, "<absent>", sim) :
      u \in { Str(U_faqPage), Str(U_wixFaq), Str(U_product), Str(U_shipping), Str(U_about), Null },
      sim \in {40, 80} }

\* rows of the answer route
AnswerBoostPool ==
  { BoostRow(u, b, sim) :
      u \in { Str(U_faqReturns), Str(U_product), Null },
      b \in {"faq", "other"},
      sim \in {20, 60} }

\* the topK fields sent to a re-ranking
BoostTopKPool == { JsonAbsent, JsonNumber(100), JsonNumber(200), JsonString(<<"a", "b", "c">>) }

BoostInit ==
  /\ HandlerIdle
  /\ ParseIdle
  /\ ClassifyIdle
  /\ TopKIdle
  /\ RankIdle
  /\ ScoreIdle
  /\ BoostIdle
  /\ IngestIdle
  /\ SitemapIdle

Boost(name, rws, raw, scored) ==
  /\ boostPc' = name
  /\ boostRows' = rws
  /\ boostTopK' = topK_part000(raw)
  /\ boostScored' = scored
  /\ boostOrder' = rerankOrder(scored, topK_part000(raw))
  /\ UNCHANGED <<handlerVars, parseVars, classifyVars, topkVars, rankVars, scoreVars, ingestVars, sitemapVars>>

\* part_001, lines 68-100
BoostPart001 ==
  /\ boostPc = "input"
  /\ \E rws \in SeqsUpTo(UrlBoostPool, MaxBoostRows), raw \in BoostTopKPool :
       /\ Boost("part_001", rws, raw, [k \in 1..Len(rws) |-> boostedSimilarity_part001(rws[k])])
       /\ boostFrom' = "<absent>"

\* part_000, lines 72-113
BoostPart000 ==
  /\ boostPc = "input"
  /\ \E rws \in SeqsUpTo(UrlBoostPool, MaxBoostRows), raw \in BoostTopKPool :
       /\ Boost("part_000", rws, raw, [k \in 1..Len(rws) |-> boostedScore_part000(rws[k])])
       /\ boostFrom' = "<absent>"

\* answer route, lines 84-130
BoostAnswer ==
  /\ boostPc = "input"
  /\ \E rws \in SeqsUpTo(AnswerBoostPool, MaxBoostRows), raw \in BoostTopKPool :
       /\ Boost("answer", rws, raw, [k \in 1..Len(rws) |-> boostedScore_answer(rws[k])])
       /\ boostFrom' = answerFrom([k \in 1..Len(rws) |-> boostedScore_answer(rws[k])],
                                  rerankOrder([k \in 1..Len(rws) |-> boostedScore_answer(rws[k])],
                                              topK_part000(raw)))

BoostNext ==
  \/ BoostPart001
  \/ BoostPart000
  \/ BoostAnswer

BoostSpec == BoostInit /\ [][BoostNext]_vars

----------------------------------------------------------------------------
(* The ingest handlers: the two POST handlers of src/app/api/ingest/route.ts   *)
(* ("route", lines 38-125, and "ingestOne", lines 215-328) and part_008.       *)
(* A page text is a name and a length; uuidv4 is a counter of fresh values.    *)

\* chunkText(text, maxLen = 4000)
chunkMaxLen == 4000

PageText(name, len) == [name |-> name, len |-> len]

\* text.slice(i, i + maxLen) for i = 0, maxLen, ... while i < text.length
chunkText(text) ==
  [k \in 1..((text.len + chunkMaxLen - 1) \div chunkMaxLen) |->
     [text |-> text.name,
      from |-> (k - 1) * chunkMaxLen,
      to |-> IF k * chunkMaxLen < text.len THEN k * chunkMaxLen ELSE text.len]]

\* the pages of the model
IngestUrls == {"https://shop/a", "https://shop/b"}

\* the texts fetchHtmlAsText extracts: nothing, one chunk, two chunks
TextPool == { PageText("empty", 0), PageText("v1", 3000), PageText("v2", 5000) }

\* the values of INGEST_SECRET: unset, empty, set
SecretPool == {"<undefined>", "", "s3cret"}

\* req.headers.get('x-ingest-secret'): null when the header is missing
HeaderPool == {"<null>", "s3cret", "wrong"}

\* the request bodies: not JSON, {}, {url}, {url, sitemapUrl}, {sitemapUrl}
IngestBody(parses, url, sitemapUrl) == [parses |-> parses, url |-> url, sitemapUrl |-> sitemapUrl]

IngestBodies ==
  { IngestBody(FALSE, "<absent>", "<absent>"), IngestBody(TRUE, "<absent>", "<absent>") }
    \cup { IngestBody(TRUE, "https://shop/a", sm) : sm \in {"<absent>", "https://shop/sitemap.xml"} }
    \cup { IngestBody(TRUE, "<absent>", "https://shop/sitemap.xml") }

\* the page lists a sitemap resolves to
SitemapResults == { <<>>, <<"https://shop/a">>, <<"https://shop/a", "https://shop/b">> }

\* the ingest requests of one behaviour
MaxIngests == 2

\* a handler that lets every header pass
secretNeverChecked(expectedSecret, headerSecret) == FALSE

\* expectedSecret && headerSecret !== expectedSecret
secretMismatch(expectedSecret, headerSecret) ==
  /\ expectedSecret \notin {"<undefined>", ""}
  /\ headerSecret # expectedSecret

NoEffects == [fetches |-> 0, embeddings |-> 0, connects |-> 0, writes |-> 0]

IngestResponse(status, ok) == [status |-> status, ok |-> ok]

IngestInit ==
  /\ HandlerIdle
  /\ ParseIdle
  /\ ClassifyIdle
  /\ TopKIdle
  /\ RankIdle
  /\ ScoreIdle
  /\ BoostIdle
  /\ SitemapIdle
  /\ ingVariant \in {"route", "ingestOne", "part_008"}
  /\ ingSecret \in (IF ingVariant = "part_008" THEN {"<undefined>"} ELSE SecretPool)
  /\ ingEnvOk \in (IF ingSecret = "s3cret" THEN BOOLEAN ELSE {TRUE})
  /\ dbDocuments = [u \in IngestUrls |-> 0]
  /\ dbChunks = {}
  /\ nextId = 1
  /\ ingCount = 0
  /\ ingPc = "idle"
  /\ ingMode = "single"
  /\ ingUrl = "<absent>"
  /\ ingQueue = <<>>
  /\ ingText = PageText("empty", 0)
  /\ ingDocId = 0
  /\ ingI = 0
  /\ ingOpen = 0
  /\ ingEffects = NoEffects
  /\ ingTally = [ingested |-> 0, failed |-> 0]
  /\ ingRequest = [header |-> "<null>", body |-> IngestBody(FALSE, "<absent>", "<absent>")]
  /\ ingResponse = IngestResponse(0, FALSE)

ingOther == <<handlerVars, parseVars, classifyVars, topkVars, rankVars, scoreVars, boostVars, sitemapVars>>

ingConfig == <<ingVariant, ingSecret, ingEnvOk>>

\* what only the arrival of a request changes
ingFixed == <<ingConfig, ingCount, ingRequest>>

\* the handler returns a response
IngestRespond(status, ok) ==
  /\ ingPc' = "responded"
  /\ ingResponse' = IngestResponse(status, ok)

\* the handler goes on to connect a client for the page url
IngestBegin(mode, url, queue) ==
  /\ ingPc' = "connecting"
  /\ ingMode' = mode
  /\ ingUrl' = url
  /\ ingQueue' = queue
  /\ UNCHANGED ingResponse

\* the outcome of the synchronous prefix of the handler for a header and a body
IngestEntry(header, reqBody) ==
  LET url == IF reqBody.parses THEN reqBody.url ELSE "<absent>"
      sitemapUrl == IF reqBody.parses THEN reqBody.sitemapUrl ELSE "<absent>"
  IN IF ingVariant = "route" THEN
       \* lines 41-62
       IF secretMismatch(ingSecret, header) THEN "401"
       ELSE IF url = "<absent>" THEN "400"
       ELSE IF ~ingEnvOk THEN "500"
       ELSE "single"
     ELSE IF ingVariant = "ingestOne" THEN
       \* lines 217-238, 290, 318-323
       IF secretMismatch(ingSecret, header) THEN "401"
       ELSE IF ~ingEnvOk THEN "500"
       ELSE IF sitemapUrl # "<absent>" THEN "sitemap"
       ELSE IF url # "<absent>" THEN "single"
       ELSE "400"
     ELSE
       \* part_008, lines 38-47: req.json() is not caught, there is no secret check
       IF ~reqBody.parses THEN "500"
       ELSE IF url = "<absent>" THEN "400"
       ELSE IF ~ingEnvOk THEN "400"
       ELSE "single"

\* POST: up to the first await on a collaborator
IngestPost ==
  /\ ingPc \in {"idle", "responded"}
  /\ ingCount < MaxIngests
  /\ ingCount' = ingCount + 1
  /\ ingEffects' = NoEffects
  /\ ingOpen' = 0
  /\ ingTally' = [ingested |-> 0, failed |-> 0]
  /\ ingText' = PageText("empty", 0)
  /\ ingDocId' = 0
  /\ ingI' = 0
  /\ \E header \in HeaderPool, reqBody \in IngestBodies :
       LET entry == IngestEntry(header, reqBody)
       IN /\ ingRequest' = [header |-> header, body |-> reqBody]
          /\ IF entry = "single" THEN IngestBegin("single", reqBody.url, <<>>)
             ELSE IF entry = "sitemap" THEN
               /\ ingPc' = "fetching_sitemap"
               /\ ingMode' = "sitemap"
               /\ ingUrl' = "<absent>"
               /\ ingQueue' = <<>>
               /\ UNCHANGED ingResponse
             ELSE
               /\ IngestRespond(IF entry = "401" THEN 401 ELSE IF entry = "400" THEN 400 ELSE 500, FALSE)
               /\ ingMode' = "single"
               /\ ingUrl' = "<absent>"
               /\ ingQueue' = <<>>
  /\ UNCHANGED <<ingOther, ingConfig, dbDocuments, dbChunks, nextId>>

\* ingestOne of the sitemap loop is over for the current page: the next page, or
\* the response (lines 297-314)
IngestNextPage(ingested, failed) ==
  /\ ingTally' = [ingested |-> ingTally.ingested + ingested, failed |-> ingTally.failed + failed]
  /\ IF ingQueue = <<>>
       THEN /\ IngestRespond(200, TRUE)
            /\ UNCHANGED <<ingMode, ingUrl, ingQueue>>
       ELSE IngestBegin("sitemap", Head(ingQueue), Tail(ingQueue))

\* an awaited call rejects: the catch of the loop in sitemap mode, the catch of
\* the handler otherwise; neither ends the client
IngestThrow ==
  IF ingMode = "sitemap" /\ ingPc # "fetching_sitemap"
    THEN IngestNextPage(0, 1)
    ELSE /\ IngestRespond(500, FALSE)
         /\ UNCHANGED <<ingMode, ingUrl, ingQueue, ingTally>>

\* await fetchSitemapUrlsDeep(sitemapUrl) resolves with the pages (line 291)
IngestSitemapResolved ==
  /\ ingPc = "fetching_sitemap"
  /\ ingEffects' = [ingEffects EXCEPT !.fetches = @ + 1]
  /\ \E urls \in SitemapResults :
       IF urls = <<>>
         THEN /\ IngestRespond(200, TRUE)
              /\ UNCHANGED <<ingMode, ingUrl, ingQueue>>
         ELSE IngestBegin("sitemap", Head(urls), Tail(urls))
  /\ UNCHANGED <<ingOther, ingFixed, dbDocuments, dbChunks, nextId, ingText,
                 ingDocId, ingI, ingOpen, ingTally>>

IngestSitemapRejected ==
  /\ ingPc = "fetching_sitemap"
  /\ ingEffects' = [ingEffects EXCEPT !.fetches = @ + 1]
  /\ IngestThrow
  /\ UNCHANGED <<ingOther, ingFixed, dbDocuments, dbChunks, nextId, ingText,
                 ingDocId, ingI, ingOpen>>

\* await client.connect()
IngestConnectResolved ==
  /\ ingPc = "connecting"
  /\ ingPc' = "fetching"
  /\ ingOpen' = ingOpen + 1
  /\ ingEffects' = [ingEffects EXCEPT !.connects = @ + 1]
  /\ UNCHANGED <<ingOther, ingFixed, dbDocuments, dbChunks, nextId, ingMode, ingUrl,
                 ingQueue, ingText, ingDocId, ingI, ingTally, ingResponse>>

IngestConnectRejected ==
  /\ ingPc = "connecting"
  /\ ingEffects' = [ingEffects EXCEPT !.connects = @ + 1]
  /\ IngestThrow
  /\ UNCHANGED <<ingOther, ingFixed, dbDocuments, dbChunks, nextId, ingText,
                 ingDocId, ingI, ingOpen>>

\* await fetchHtmlAsText(url): an empty text goes to client.end()
IngestFetchResolved ==
  /\ ingPc = "fetching"
  /\ ingEffects' = [ingEffects EXCEPT !.fetches = @ + 1]
  /\ \E text \in TextPool :
       /\ ingText' = text
       /\ ingPc' = IF text.len = 0 THEN "ending_empty" ELSE "upserting"
  /\ UNCHANGED <<ingOther, ingFixed, dbDocuments, dbChunks, nextId, ingMode, ingUrl,
                 ingQueue, ingDocId, ingI, ingOpen, ingTally, ingResponse>>

IngestFetchRejected ==
  /\ ingPc = "fetching"
  /\ ingEffects' = [ingEffects EXCEPT !.fetches = @ + 1]
  /\ IngestThrow
  /\ UNCHANGED <<ingOther, ingFixed, dbDocuments, dbChunks, nextId, ingText,
                 ingDocId, ingI, ingOpen>>

\* the id of the row of url after
\* insert into documents ... on conflict (url) do update set content = ...
upsertedId(documents, url, newId) == IF documents[url] = 0 THEN newId ELSE documents[url]

\* docId after the upsert: the fresh uuid in the route (lines 80-86 and 251-261),
\* the id the statement returns in part_008 (lines 61-69)
docIdAfterUpsert(documents, url, newId) ==
  IF ingVariant = "part_008" THEN upsertedId(documents, url, newId) ELSE newId

IngestUpsertResolved ==
  /\ ingPc = "upserting"
  /\ ingPc' = "deleting"
  /\ nextId' = nextId + 1
  /\ dbDocuments' = [dbDocuments EXCEPT ![ingUrl] = upsertedId(dbDocuments, ingUrl, nextId)]
  /\ ingDocId' = docIdAfterUpsert(dbDocuments, ingUrl, nextId)
  /\ ingEffects' = [ingEffects EXCEPT !.writes = @ + 1]
  /\ UNCHANGED <<ingOther, ingFixed, dbChunks, ingMode, ingUrl, ingQueue, ingText,
                 ingI, ingOpen, ingTally, ingResponse>>

\* a query rejects: nothing is written
IngestQueryRejected ==
  /\ ingPc \in {"upserting", "deleting", "inserting"}
  /\ IngestThrow
  /\ UNCHANGED <<ingOther, ingFixed, dbDocuments, dbChunks, nextId, ingText,
                 ingDocId, ingI, ingOpen, ingEffects>>

\* delete from document_chunks where document_id = $1
IngestDeleteResolved ==
  /\ ingPc = "deleting"
  /\ ingPc' = "embedding"
  /\ ingI' = 0
  /\ dbChunks' = { c \in dbChunks : c.document_id # ingDocId }
  /\ ingEffects' = [ingEffects EXCEPT !.writes = @ + 1]
  /\ UNCHANGED <<ingOther, ingFixed, dbDocuments, nextId, ingMode, ingUrl, ingQueue,
                 ingText, ingDocId, ingOpen, ingTally, ingResponse>>

\* await openai.embeddings.create for chunks[i]
IngestEmbedResolved ==
  /\ ingPc = "embedding"
  /\ ingPc' = "inserting"
  /\ ingEffects' = [ingEffects EXCEPT !.embeddings = @ + 1]
  /\ UNCHANGED <<ingOther, ingFixed, dbDocuments, dbChunks, nextId, ingMode, ingUrl,
                 ingQueue, ingText, ingDocId, ingI, ingOpen, ingTally, ingResponse>>

IngestEmbedRejected ==
  /\ ingPc = "embedding"
  /\ ingEffects' = [ingEffects EXCEPT !.embeddings = @ + 1]
  /\ IngestThrow
  /\ UNCHANGED <<ingOther, ingFixed, dbDocuments, dbChunks, nextId, ingText,
                 ingDocId, ingI, ingOpen>>

\* insert into document_chunks (id, document_id, chunk_index, content, embedding)
IngestInsertResolved ==
  /\ ingPc = "inserting"
  /\ dbChunks' = dbChunks \cup
       { [document_id |-> ingDocId, chunk_index |-> ingI, content |-> chunkText(ingText)[ingI + 1]] }
  /\ ingI' = ingI + 1
  /\ ingPc' = IF ingI + 1 < Len(chunkText(ingText)) THEN "embedding" ELSE "ending"
  /\ ingEffects' = [ingEffects EXCEPT !.writes = @ + 1]
  /\ UNCHANGED <<ingOther, ingFixed, dbDocuments, nextId, ingMode, ingUrl, ingQueue,
                 ingText, ingDocId, ingOpen, ingTally, ingResponse>>

\* await client.end() after the loop, or after an empty text: the result of the
\* page, which the sitemap loop counts as ingested whatever its ok field
IngestEndResolved ==
  /\ ingPc \in {"ending", "ending_empty"}
  /\ ingOpen' = ingOpen - 1
  /\ IF ingMode = "sitemap"
       THEN IngestNextPage(1, 0)
       ELSE /\ IngestRespond(IF ingPc = "ending_empty" /\ ingVariant = "part_008" THEN 400 ELSE 200,
                             ingPc = "ending")
            /\ UNCHANGED <<ingMode, ingUrl, ingQueue, ingTally>>
  /\ UNCHANGED <<ingOther, ingFixed, dbDocuments, dbChunks, nextId, ingText,
                 ingDocId, ingI, ingEffects>>

IngestEndRejected ==
  /\ ingPc \in {"ending", "ending_empty"}
  /\ IngestThrow
  /\ UNCHANGED <<ingOther, ingFixed, dbDocuments, dbChunks, nextId, ingText,
                 ingDocId, ingI, ingOpen, ingEffects>>

IngestNext ==
  \/ IngestPost
  \/ IngestSitemapResolved
  \/ IngestSitemapRejected
  \/ IngestConnectResolved
  \/ IngestConnectRejected
  \/ IngestFetchResolved
  \/ IngestFetchRejected
  \/ IngestUpsertResolved
  \/ IngestQueryRejected
  \/ IngestDeleteResolved
  \/ IngestEmbedResolved
  \/ IngestEmbedRejected
  \/ IngestInsertResolved
  \/ IngestEndResolved
  \/ IngestEndRejected

IngestSpec == IngestInit /\ [][IngestNext]_vars

----------------------------------------------------------------------------
(* fetchSitemapUrlsDeep (src/app/api/ingest/route.ts, lines 167-208) over a    *)
(* fixed set of sitemap documents                                              *)

\* the sitemap urls that have a document, and one that does not
SitemapUrls == {"s1", "s2"}

SitemapLocs == SitemapUrls \cup {"gone"}

\* a fetched document: res.ok, its url > loc entries, its sitemap > loc entries
SitemapDoc(ok, urls, sitemaps) == [ok |-> ok, urls |-> urls, sitemaps |-> sitemaps]

\* a failed fetch, an empty document, a urlset, a urlset that also lists a
\* sitemap, and the indexes of one or two children
SitemapDocs ==
  { SitemapDoc(FALSE, <<>>, <<>>), SitemapDoc(TRUE, <<>>, <<>>),
    SitemapDoc(TRUE, <<"https://shop/a">>, <<>>),
    SitemapDoc(TRUE, <<"https://shop/a">>, <<"s1">>) }
    \cup { SitemapDoc(TRUE, <<>>, sm) : sm \in SeqsUpTo(SitemapLocs, 2) \ {<<>>} }

\* what fetch(sitemapUrl) finds: a url without a document answers 404
fetchedDoc(docs, url) ==
  IF url \in DOMAIN docs THEN docs[url] ELSE SitemapDoc(FALSE, <<>>, <<>>)

\* the deepest nesting of calls the model follows
MaxSitemapDepth == 4

\* a call that awaits its fetch, and a call that loops over its children
FetchingFrame(url) ==
  [url |-> url, phase |-> "fetching", children |-> <<>>, next |-> 1, all |-> <<>>]

LoopingFrame(url, children) ==
  [url |-> url, phase |-> "children", children |-> children, next |-> 1, all |-> <<>>]

SitemapInit ==
  /\ HandlerIdle
  /\ ParseIdle
  /\ ClassifyIdle
  /\ TopKIdle
  /\ RankIdle
  /\ ScoreIdle
  /\ BoostIdle
  /\ IngestIdle
  /\ smDocs \in [SitemapUrls -> SitemapDocs]
  /\ smStack = <<>>
  /\ smPc = "idle"
  /\ smResult = <<>>

smOther ==
  <<handlerVars, parseVars, classifyVars, topkVars, rankVars, scoreVars, boostVars, ingestVars>>

\* the innermost call returns value: to the caller of the outermost call, or into
\* all of the loop that awaits it (lines 201-202)
SitemapReturn(value) ==
  IF Len(smStack) = 1
    THEN /\ smStack' = <<>>
         /\ smPc' = "done"
         /\ smResult' = value
    ELSE /\ smStack' = [SubSeq(smStack, 1, Len(smStack) - 1) EXCEPT
                          ![Len(smStack) - 1].all = @ \o value,
                          ![Len(smStack) - 1].next = @ + 1]
         /\ UNCHANGED <<smPc, smResult>>

\* the innermost call throws: to the caller of the outermost call, or into the
\* catch of the loop that awaits it (lines 203-205)
SitemapThrow ==
  IF Len(smStack) = 1
    THEN /\ smStack' = <<>>
         /\ smPc' = "failed"
         /\ UNCHANGED smResult
    ELSE /\ smStack' = [SubSeq(smStack, 1, Len(smStack) - 1) EXCEPT
                          ![Len(smStack) - 1].next = @ + 1]
         /\ UNCHANGED <<smPc, smResult>>

\* fetchSitemapUrlsDeep(sitemapUrl) is called by the handler
SitemapCall ==
  /\ smPc = "idle"
  /\ smPc' = "running"
  /\ \E root \in SitemapUrls : smStack' = <<FetchingFrame(root)>>
  /\ UNCHANGED <<smOther, smDocs, smResult>>

\* lines 168-195: the fetch of the innermost call settles
SitemapFetched ==
  /\ smPc = "running"
  /\ smStack[Len(smStack)].phase = "fetching"
  /\ LET top == smStack[Len(smStack)]
         doc == fetchedDoc(smDocs, top.url)
     IN IF ~doc.ok THEN SitemapThrow
        ELSE IF doc.urls # <<>> THEN SitemapReturn(doc.urls)
        ELSE IF doc.sitemaps = <<>> THEN SitemapReturn(<<>>)
        ELSE /\ smStack' = [smStack EXCEPT ![Len(smStack)] = LoopingFrame(top.url, doc.sitemaps)]
             /\ UNCHANGED <<smPc, smResult>>
  /\ UNCHANGED <<smOther, smDocs>>

\* lines 199-201: the loop calls fetchSitemapUrlsDeep(child)
SitemapDescend ==
  /\ smPc = "running"
  /\ Len(smStack) < MaxSitemapDepth
  /\ LET top == smStack[Len(smStack)]
     IN /\ top.phase = "children"
        /\ top.next <= Len(top.children)
        /\ smStack' = Append(smStack, FetchingFrame(top.children[top.next]))
  /\ UNCHANGED <<smOther, smDocs, smPc, smResult>>

\* line 207: the loop is over
SitemapLoopDone ==
  /\ smPc = "running"
  /\ LET top == smStack[Len(smStack)]
     IN /\ top.phase = "children"
        /\ top.next > Len(top.children)
        /\ SitemapReturn(top.all)
  /\ UNCHANGED <<smOther, smDocs>>

SitemapNext ==
  \/ SitemapCall
  \/ SitemapFetched
  \/ SitemapDescend
  \/ SitemapLoopDone

SitemapSpec == SitemapInit /\ [][SitemapNext]_vars

----------------------------------------------------------------------------
(* Vocabulary of the properties, over the state of a finished request *)

\* a search handler has answered
Answered == pc = "done" /\ route \in Routes

\* the handler reached its ranking step: it answered 200 or its ranking threw
Ranked == Answered /\ response.error \in {Absent, NullContentMessage}

\* the candidates of the faq bucket, most similar first
FaqCandidates ==
  SelectSeq(rows, LAMBDA r : IF route = "search" THEN inlineSource(r) = "faq"
                             ELSE rowSource(r) = "faq")

\* the faq candidates at or above faqMinSimilarity
QualifyingFaq == SelectSeq(FaqCandidates, LAMBDA r : r.similarity >= FAQ_MIN_SIM)

\* the review candidates: the stored reviews, or the review-bucket rows of part_004
ReviewCandidates ==
  IF route = "search" THEN reviewRows
  ELSE SelectSeq(rows, LAMBDA r : rowSource(r) = "google-review")

\* the number of query words a review candidate contains
ReviewMatchOf(r) ==
  IF route = "search" THEN SearchReviewScoreOf[r.content][query]
  ELSE Part004MatchOf[r.content][query]

\* some review candidate matches the query
ReviewMatches ==
  \E i \in 1..Len(ReviewCandidates) : ReviewMatchOf(ReviewCandidates[i]) > 0

\* the number of intent keywords in a candidate's content
KeywordCount(r) == OrderScoreOf[r.content]

HasMalformedFaq == \E i \in 1..Len(FaqCandidates) : FaqCandidates[i].content.isNull

----------------------------------------------------------------------------
(* C1 *)

\* C1: when a faq candidate qualifies and review candidates match too, the response
\* has source 'faq', canShowReviews true, and carries no review content.
C1_FaqPriority ==
  (Answered /\ response.status = 200 /\ QualifyingFaq # <<>> /\ ReviewMatches)
    => /\ response.source = "faq"
       /\ response.canShowReviews = "true"
       /\ response.reviews = <<>>

----------------------------------------------------------------------------
(* C2 *)

\* C2: when the FAQ pipeline returns nothing and no stored review matches the query
\* (also when no review is stored), the response has source 'none', no results and a
\* not-found message.
C2_ReviewMiss ==
  (Answered /\ response.status = 200 /\ response.faq = <<>> /\ ~ReviewMatches)
    => /\ response.source = "none"
       /\ response.reviews = <<>>
       /\ response.message # Absent

----------------------------------------------------------------------------
(* C3 *)

----------------------------------------------------------------------------
(* C4 *)

\* C4: a faq candidate with null content never makes the request fail: ranking
\* completes for the other candidates, on the primary path and on the rescue path.
C4_MalformedAbsorbed ==
  (Ranked /\ HasMalformedFaq) => response.status = 200

----------------------------------------------------------------------------
(* C5 *)

\* C5: when the embedding call or a vector-store query fails, a request with debug
\* gets the failure, and a request without debug gets a 200 response with source 'none'.
C5_UpstreamByDebug ==
  [][(pc \in {"embedding", "querying", "querying_reviews"} /\ pc' = "done")
       => IF body.debug
            THEN response'.status = 500
            ELSE response'.status = 200 /\ response'.source = "none"]_vars

----------------------------------------------------------------------------
(* C6 *)

\* C6: every response carries at most maxFaqReturn (3) FAQ results and at most
\* maxReviewReturn (3) review results, from the threshold path and from rescue alike.
C6_ResultCaps ==
  /\ Len(response.faq) <= MAX_FAQ_RETURN
  /\ Len(response.reviews) <= MAX_REVIEW_RETURN

\* more candidates than the caps on both sides, and both lists cut to three
C6_Witness ==
  /\ Answered
  /\ response.status = 200
  /\ Len(QualifyingFaq) > MAX_FAQ_RETURN
  /\ Len(ReviewCandidates) > MAX_REVIEW_RETURN
  /\ Len(response.faq) = MAX_FAQ_RETURN
  /\ Len(response.reviews) = MAX_REVIEW_RETURN

----------------------------------------------------------------------------
(* C7 *)

\* the faq candidates at or above the threshold that come before candidate i
QualifyingBefore(i) ==
  Cardinality({ j \in 1..(i - 1) : FaqCandidates[j].similarity >= FAQ_MIN_SIM })

InFaqResults(r) == \E k \in 1..Len(response.faq) : response.faq[k] = FaqItem(r)

\* C7: a faq candidate whose similarity equals faqMinSimilarity is returned when fewer
\* than maxFaqReturn qualifying candidates precede it, and a result below
\* faqMinSimilarity is only ever the single result of rescue.
C7_ThresholdBoundary ==
  Ranked
    => /\ \A i \in 1..Len(FaqCandidates) :
            (/\ FaqCandidates[i].similarity = FAQ_MIN_SIM
             /\ QualifyingBefore(i) < MAX_FAQ_RETURN)
              => InFaqResults(FaqCandidates[i])
       /\ (\E k \in 1..Len(response.faq) : response.faq[k].similarity < FAQ_MIN_SIM)
            => /\ QualifyingFaq = <<>>
               /\ LooksLikeOrderOf[query]
               /\ Len(response.faq) = 1

\* a candidate at the threshold is returned while one below it is left out
C7_Witness ==
  /\ Ranked
  /\ response.status = 200
  /\ \E i \in 1..Len(FaqCandidates) :
       /\ FaqCandidates[i].similarity = FAQ_MIN_SIM
       /\ InFaqResults(FaqCandidates[i])
  /\ \E j \in 1..Len(FaqCandidates) :
       /\ FaqCandidates[j].similarity < FAQ_MIN_SIM
       /\ ~InFaqResults(FaqCandidates[j])

----------------------------------------------------------------------------
(* C8 *)

\* C8: with no faq candidate at the threshold, an intent keyword in the query and a
\* faq candidate whose content has an intent keyword, the FAQ results are exactly one
\* candidate of highest keyword count; without a keyword in the query or in any faq
\* candidate, the FAQ results are empty.
C8_Rescue ==
  (Ranked /\ QualifyingFaq = <<>>)
    => IF /\ LooksLikeOrderOf[query]
          /\ \E i \in 1..Len(FaqCandidates) : KeywordCount(FaqCandidates[i]) > 0
         THEN /\ Len(response.faq) = 1
              /\ \E i \in 1..Len(FaqCandidates) :
                   /\ response.faq[1] = FaqItem(FaqCandidates[i])
                   /\ \A j \in 1..Len(FaqCandidates) :
                        KeywordCount(FaqCandidates[j]) <= KeywordCount(FaqCandidates[i])
         ELSE response.faq = <<>>

----------------------------------------------------------------------------
(* C9 *)

\* the row has no truthy tag, neither in meta, nor in doc_meta, nor of its own
NoSourceMetadata(row) ==
  /\ \A t \in { MetaOrEmpty(row.meta).source, MetaOrEmpty(row.meta).type,
                MetaOrEmpty(row.meta).sourceBucket } : ~TagTruthy(t)
  /\ \A t \in { MetaOrEmpty(row.doc_meta).source, MetaOrEmpty(row.doc_meta).type,
                MetaOrEmpty(row.doc_meta).sourceBucket } : ~TagTruthy(t)
  /\ ~TagTruthy(row.sourceBucket)

\* C9: a row without any source metadata is classified 'faq', never 'unknown'.
C9_BucketFallback ==
  (clsPc # "input" /\ NoSourceMetadata(clsRow)) => clsOut = "faq"

\* rowSource has classified a row whose meta is null and that has no other tag
C9_Witness ==
  /\ clsPc = "rowSource"
  /\ clsRow.meta.isNull
  /\ NoSourceMetadata(clsRow)
  /\ clsOut = "faq"

----------------------------------------------------------------------------
(* C10 *)

T_janeDoe == <<"J","a","n","e"," ","D","o","e">>

T_isoDate == <<"2","0","2","4","-","0","1","-","0","1">>

\* C10: the four-line review parses to reviewer 'Jane Doe', rating 5, date
\* '2024-01-01' and text 'Great fit'.
C10_FourLineReview ==
  (parsePc = "parsed" /\ parseRaw = FourLineReview)
    => /\ parseOut.reviewer = Str(T_janeDoe)
       /\ parseOut.rating = JustNum(500)
       /\ parseOut.date = Str(T_isoDate)
       /\ parseOut.review = Str(T_greatFit)

\* C12: for every value of the request's topK field (absent, a number, out of
\* range, fractional, not a number) the topK handed to the candidate query is
\* an integer between 1 and the handler's upper limit
C12_TopKInteger ==
  topkPc = "clamped" =>
    /\ ~topkOut.isNaN
    /\ topkOut.num % 100 = 0
    /\ topkOut.num >= 100
    /\ topkOut.num <= 100 * MaxKOf(topkHandler)

----------------------------------------------------------------------------
(* C13 *)

\* the answer route handles a request whose showReviews is set
ReviewsOnly == route = "answer" /\ pc # "idle" /\ JsonTruthy(body.showReviews)

----------------------------------------------------------------------------
(* C14 *)

\* C14: when the FAQ pipeline of src/app/api/search/route.ts returns nothing, the
\* review query ran in the same request, and the response has source
\* 'google-review' with reviews when some stored review matches the query, and
\* source 'none' when none does
C14_ReviewFallback ==
  (Answered /\ route = "search" /\ response.status = 200 /\ response.faq = <<>>)
    => /\ dbQueries = 2
       /\ IF ReviewMatches
            THEN response.source = "google-review" /\ response.reviews # <<>>
            ELSE response.source = "none"

----------------------------------------------------------------------------
(* C15 *)

\* the number of query tokens the candidate at position i of rankRows contains
LexicalScore(i) ==
  IF rankPc = "part_004" THEN Part004MatchOf[rankRows[i].content][rankQuery]
  ELSE Part002MatchOf[rankRows[i].content][rankQuery]

\* the candidate at position i of rankRows is returned
Returned(i) == \E k \in 1..Len(rankOrder) : rankOrder[k] = i

\* the rank of a returned candidate
RankOf(i) == CHOOSE k \in 1..Len(rankOrder) : rankOrder[k] = i

\* C15: the positional bonus never overrides a higher lexical score: when
\* candidate a contains strictly more query tokens than candidate b and b is
\* returned, a is returned too and stands before b, whatever their positions in
\* the candidate order
C15_LexicalFirst ==
  rankPc # "input" =>
    \A a, b \in 1..Len(rankRows) :
      (LexicalScore(a) > LexicalScore(b) /\ Returned(b))
        => (Returned(a) /\ RankOf(a) < RankOf(b))

----------------------------------------------------------------------------
(* C16 *)

\* C16: the review pipeline discards zero-score candidates: every review returned
\* from the review candidates contains at least one token of the query
C16_ZeroScoreDiscarded ==
  (Answered /\ response.status = 200 /\ ReviewCandidates # <<>>)
    => \A k \in 1..Len(response.reviews) :
         scoreReview(response.reviews[k].text.chars, query) > 0

----------------------------------------------------------------------------
(* C17 *)

\* the first maxFaqReturn qualifying faq candidates, as results
PrimarySelection ==
  [k \in 1..(IF Len(QualifyingFaq) < MAX_FAQ_RETURN THEN Len(QualifyingFaq) ELSE MAX_FAQ_RETURN)
     |-> FaqItem(QualifyingFaq[k])]

\* C17: whenever at least one faq candidate has similarity >= faqMinSimilarity,
\* the handler answers 200 and the FAQ results are exactly the primary selection:
\* no keyword-scored candidate is added or substituted
C17_RescueOnlyOnEmpty ==
  (Ranked /\ QualifyingFaq # <<>>)
    => /\ response.status = 200
       /\ response.faq = PrimarySelection

\* an order-like query with a qualifying faq candidate and, below the threshold,
\* a faq candidate that contains an intent keyword and is left out
C17_Witness ==
  /\ Ranked
  /\ QualifyingFaq # <<>>
  /\ LooksLikeOrderOf[query]
  /\ response.faq = PrimarySelection
  /\ \E i \in 1..Len(FaqCandidates) :
       /\ FaqCandidates[i].similarity < FAQ_MIN_SIM
       /\ ~FaqCandidates[i].content.isNull
       /\ KeywordCount(FaqCandidates[i]) > 0
       /\ ~InFaqResults(FaqCandidates[i])

----------------------------------------------------------------------------
(* C18 *)

\* a tag that is present and not empty
NonEmptyTag(t) == t # NoTag /\ t # ""

\* the first non-empty value of the chain chunk-level source tag, chunk-level
\* type tag, document-level source tag, document-level type tag, and 'faq' after
\* them; the rows of the model carry no url a review-domain marker could be found in
ChainTag(row) ==
  LET chunk == IF row.meta.isNull THEN Meta(NoTag, NoTag, NoTag) ELSE row.meta
      doc == IF row.doc_meta.isNull THEN Meta(NoTag, NoTag, NoTag) ELSE row.doc_meta
  IN IF NonEmptyTag(chunk.source) THEN chunk.source
     ELSE IF NonEmptyTag(chunk.type) THEN chunk.type
     ELSE IF NonEmptyTag(doc.source) THEN doc.source
     ELSE IF NonEmptyTag(doc.type) THEN doc.type
     ELSE "faq"

\* C18: the bucket of a row is decided by the first non-empty value of the chain
\* chunk-level source tag, chunk-level type tag, document-level source tag,
\* document-level type tag, URL heuristic, default 'faq', and by no field
\* outside this chain
C18_BucketChain ==
  clsPc \in {"rowSource", "dbRowToSource"} =>
    clsOut = (IF ChainTag(clsRow) \in {"faq", "google-review"} THEN ChainTag(clsRow)
              ELSE "unknown")

----------------------------------------------------------------------------
(* C19 *)

\* the source tag of the row is present and is neither faq nor the review tag
OtherTagged(r) ==
  /\ ~r.meta.isNull
  /\ r.meta.source \notin {NoTag, "", "faq", "google-review"}

\* the review the handler would build from row r is among the returned reviews
InReviewResults(r) ==
  \E k \in 1..Len(response.reviews) :
    response.reviews[k] = (IF route = "search" THEN SearchReviewItemOf[r.content]
                           ELSE Part004ReviewOf[r.content])

\* C19: a candidate whose source tag is neither faq nor the review tag is
\* classified unknown by part_004 and is in neither the FAQ results nor the
\* review results, whether the FAQ results come from the threshold or from rescue
C19_UnknownExcluded ==
  Ranked =>
    \A i \in 1..Len(rows) :
      OtherTagged(rows[i])
        => /\ route = "part_004" => rowSource(rows[i]) = "unknown"
           /\ ~InFaqResults(rows[i])
           /\ ~InReviewResults(rows[i])

\* rescue answered an order-like query with a faq candidate below the threshold
\* while a candidate tagged otherwise, above the threshold and with an intent
\* keyword in its content, stayed out
C19_Witness ==
  /\ Ranked
  /\ route = "part_004"
  /\ response.status = 200
  /\ QualifyingFaq = <<>>
  /\ Len(response.faq) = 1
  /\ response.faq[1].similarity < FAQ_MIN_SIM
  /\ \E i \in 1..Len(rows) :
       /\ OtherTagged(rows[i])
       /\ rows[i].similarity >= FAQ_MIN_SIM
       /\ KeywordCount(rows[i]) > 0
       /\ ~InFaqResults(rows[i])

----------------------------------------------------------------------------
(* C20 *)

\* the text has a rating line whose number is outside [0, 5]
OutOfRangeRating ==
  \/ Includes(parseRaw, T_rating9)
  \/ Includes(parseRaw, T_rating10)
  \/ Includes(parseRaw, T_rating5_9)

\* C20: the parsers of part_004 and part_002 return a rating only when the
\* written number lies in [0, 5]: the rating is null or between 0 and 5, and it
\* is null for 'Rating: 9', 'Rating: 10' and 'Rating: 5.9' (never a prefix of
\* the written number)
C20_RatingInRange ==
  (parsePc = "parsed" /\ parser \in {"part_004", "part_002"})
    => /\ ~parseOut.rating.isNull => (parseOut.rating.num >= 0 /\ parseOut.rating.num <= 500)
       /\ OutOfRangeRating => parseOut.rating.isNull

----------------------------------------------------------------------------
(* C21 *)

\* C21: for every raw text, the empty text and a text without any labelled field
\* included, the parsers of part_004 and part_002 return a review text that is a
\* string, never null or undefined
C21_TextNeverNull ==
  (parsePc = "parsed" /\ parser \in {"part_004", "part_002"}) => ~parseOut.review.isNull

----------------------------------------------------------------------------
(* C22 *)

\* the normalized query and the normalized text of the scorer's arguments
NormQuery == normalize(scoredQuery)

NormText == normalize(IF scoredText.isNull THEN <<>> ELSE scoredText.chars)

\* the positions where a whitespace-delimited token of the normalized query starts
TokenStarts ==
  { i \in 1..Len(NormQuery) : NormQuery[i] # " " /\ (i = 1 \/ NormQuery[i - 1] = " ") }

\* the token that starts at position i: it runs to the next blank or to the end
TokenAt(i) ==
  LET e == CHOOSE k \in i..Len(NormQuery) :
             /\ \A j \in i..k : NormQuery[j] # " "
             /\ (k = Len(NormQuery) \/ NormQuery[k + 1] = " ")
  IN SubSeq(NormQuery, i, e)

\* w occurs in the normalized text
OccursInText(w) ==
  \E a \in 0..(Len(NormText) - Len(w)) : SubSeq(NormText, a + 1, a + Len(w)) = w

\* C22: the lexical score equals the number of whitespace-delimited tokens of the
\* normalized query, duplicates counted, that occur as substrings of the
\* normalized text, and lies between 0 and the number of query tokens
C22_LexicalScore ==
  scorePc # "input" =>
    /\ scoreOut = Cardinality({ i \in TokenStarts : OccursInText(TokenAt(i)) })
    /\ scoreOut >= 0
    /\ scoreOut <= Cardinality(TokenStarts)

\* a query of four tokens, one of them twice, against a text that holds only the
\* repeated token: both copies count
C22_Witness ==
  /\ scorePc # "input"
  /\ scoredQuery = S_greatTwice
  /\ scoredText = Str(S_greatUpper)
  /\ scoreOut = 2

----------------------------------------------------------------------------
(* C23 *)

\* the score the candidate at position i of rankRows is ranked by: the number of
\* intent keywords in its content for rescue, the lexical score plus the
\* positional bonus (in fifths) for the reviews
RankingScore(i) ==
  IF rankPc = "rescue" THEN KeywordCount(rankRows[i])
  ELSE 5 * LexicalScore(i) + (IF i <= 5 THEN 6 - i ELSE 0)

\* C23: candidates of equal score keep their original relative order: when two
\* candidates have the same score and the later one is returned, the earlier one
\* is returned too and is ranked before it
C23_StableTies ==
  rankPc # "input" =>
    \A a, b \in 1..Len(rankRows) :
      (a < b /\ RankingScore(a) = RankingScore(b) /\ Returned(b))
        => (Returned(a) /\ RankOf(a) < RankOf(b))

\* two returned reviews of equal total score, the earlier one ranked first
C23_Witness ==
  /\ rankPc = "part_004"
  /\ \E a, b \in 1..Len(rankRows) :
       /\ a < b
       /\ RankingScore(a) = RankingScore(b)
       /\ Returned(a)
       /\ Returned(b)
       /\ RankOf(a) < RankOf(b)

----------------------------------------------------------------------------
(* C24 *)

\* the page kind the re-ranking that ran puts the row at position i in
PageKind(i) ==
  LET r == boostRows[i]
      url == UrlOrEmpty(r.url)
  IN IF boostPc = "part_001" THEN <<isFaqUrl_part001(url), isPolicy_part001(url)>>
     ELSE IF boostPc = "part_000" THEN <<boost_part000(url)>>
     ELSE <<isFaq_answer(r)>>

\* what the ranking score of the row at position i adds to its similarity
AddedToSimilarity(i) == boostScored[i] - 100 * boostRows[i].similarity

\* C24: every boost is additive: the ranking score of a candidate is its similarity
\* plus an amount that is the same for all candidates of its page kind
C24_AdditiveBoost ==
  boostPc # "input" =>
    \A i, j \in 1..Len(boostRows) :
      PageKind(i) = PageKind(j) => AddedToSimilarity(i) = AddedToSimilarity(j)

----------------------------------------------------------------------------
(* C29 *)

\* the row whose content the answer route returns
BestRow == boostRows[boostOrder[1]]

\* C29: an answer labelled from = 'faq' returns a chunk identified as FAQ by its
\* source bucket or its url
C29_FaqLabelIsFaq ==
  (boostPc = "answer" /\ boostFrom = "faq") => isFaq_answer(BestRow)

----------------------------------------------------------------------------
(* C25 *)

\* the chunks stored for a url: those of the document row of the url
StoredFor(url) ==
  { [chunk_index |-> c.chunk_index, content |-> c.content] :
      c \in { d \in dbChunks : d.document_id = dbDocuments[url] } }

\* the chunks an ingestion of the text writes
ChunksOf(text) ==
  { [chunk_index |-> k - 1, content |-> chunkText(text)[k]] : k \in 1..Len(chunkText(text)) }

\* a single-url ingest request has answered ok: true
IngestedSingle ==
  /\ ingPc = "responded"
  /\ ingMode = "single"
  /\ ingResponse.ok

\* C25: after a completed single-url ingestion the chunks stored for the url are
\* exactly the chunks of that ingestion
C25_ReingestReplaces == IngestedSingle => StoredFor(ingUrl) = ChunksOf(ingText)

----------------------------------------------------------------------------
(* C27 *)

\* a request has arrived whose x-ingest-secret header is not the configured
\* (non-empty) INGEST_SECRET, at the handlers of src/app/api/ingest/route.ts
WrongSecret ==
  /\ ingVariant \in {"route", "ingestOne"}
  /\ ingPc # "idle"
  /\ ingSecret \notin {"<undefined>", ""}
  /\ ingRequest.header # ingSecret

\* C27: with INGEST_SECRET configured, a request with another x-ingest-secret
\* header is answered 401 and has fetched no page, called no embedding, connected
\* no client and written nothing, with a url or with a sitemap in its body
C27_SecretGate ==
  WrongSecret =>
    /\ ingPc = "responded"
    /\ ingResponse.status = 401
    /\ ingEffects = NoEffects
    /\ ingOpen = 0

\* a sitemap request refused after an ingestion has filled the tables
C27_Witness ==
  /\ WrongSecret
  /\ ingVariant = "ingestOne"
  /\ ingRequest.body.parses
  /\ ingRequest.body.sitemapUrl # "<absent>"
  /\ ingResponse.status = 401
  /\ dbChunks # {}

----------------------------------------------------------------------------
(* C26 *)

\* the handler has connected its client: connect() resolved, on which every
\* handler sends its first query at once
ClientConnected == dbQueries > 0

\* C26: when a handler returns, the client it connected has been closed, on the
\* success path and on every failure path
C26_ClientClosed == (pc = "done" /\ ClientConnected) => dbEnds > 0

----------------------------------------------------------------------------
(* C28 *)

\* the sitemap urls of the calls in progress, the outermost first
CallChain == [k \in 1..Len(smStack) |-> smStack[k].url]

\* C28: fetchSitemapUrlsDeep terminates on every finite set of documents. A fetch
\* of a url always returns the same document, so a call for a url made inside a
\* call for the same url repeats it without end: the traversal terminates exactly
\* when no url is twice on the chain of calls in progress
C28_SitemapTerminates ==
  \A i, j \in 1..Len(CallChain) : i # j => CallChain[i] # CallChain[j]


====
